---- MODULE Spec2Model ----
(***************************************************************************)
(* Region editor of the display monitor (config.js): the region           *)
(* collection, the undo/redo history and the pointer state machine of     *)
(* bindCanvasEvents, with the toolbar and property-panel handlers of      *)
(* bindEvents.                                                             *)
(*                                                                         *)
(* Coordinates are integers.  Every pointer position offered to the       *)
(* handlers is a multiple of 20 rendered pixels and the scale is 2, so    *)
(* every division the handlers perform is exact.  The centre of a region  *)
(* is kept as 4 * centre and an angle as the direction vector it was      *)
(* taken from, so that no value is rounded.                                *)
(***************************************************************************)
EXTENDS Integers, Sequences, FiniteSets, TLC

\* ------------------------------------------------------------------ bounds
MaxEvents == 3          \* user events handled in one behaviour of Spec
MaxRegions == 3         \* regions the collection may hold in Spec
MaxDrawEvents == 4      \* user events handled in one behaviour of SpecDraw
MaxPushes == 60         \* events handled in one behaviour of SpecHistory
MaxGestureEvents == 6   \* user events handled in one behaviour of SpecGesture
MaxAliasEvents == 4     \* user events handled in one behaviour of SpecAlias

\* ------------------------------------------------------- program constants
HistoryLimit == 50      \* saveState: undoStack.length > 50
CornerRadius == 15      \* mousedown: Math.abs(mouseX - sx) < 15
RotHandleOffset == 40   \* mousedown: midX + nx * 40
RotHandleRadius == 15   \* mousedown: Math.abs(mouseX - hrx) < 15
EdgeThreshold == 10     \* mousedown: distToSegment(...) < 10
MinDrawSize == 20       \* mouseup: w < 20 || h < 20
EventsPerMs == 2        \* handlers that can run within one value of Date.now()

\* ------------------------------------------------------------------ values
NULL == "null"

Pt(a, b) == [x |-> a, y |-> b]

\* a JavaScript number that is an integer, NaN, or the JSON value null
Num(n) == [t |-> "num", v |-> n]
NaN == [t |-> "NaN", v |-> 0]
Null == [t |-> "null", v |-> 0]

Abs(n) == IF n < 0 THEN -n ELSE n
Last(s) == s[Len(s)]
Front(s) == SubSeq(s, 1, Len(s) - 1)
Min2(a, b) == IF a < b THEN a ELSE b
Max2(a, b) == IF a > b THEN a ELSE b

RECURSIVE Gcd(_, _)
Gcd(a, b) == IF b = 0 THEN a ELSE Gcd(b, a % b)

\* JavaScript %: the remainder takes the sign of the dividend
JsRem(a, b) == IF a >= 0 THEN a % b ELSE -((-a) % b)

\* d.rotation || 0
OrZero(r) == IF r.t = "num" THEN r.v ELSE 0

\* parseInt of the text of the number field prop-rotation: the integer the
\* text spells, NaN for the empty field
DecimalRange == 0..720
ParseInt(s) ==
    IF \E n \in DecimalRange : ToString(n) = s
    THEN Num(CHOOSE n \in DecimalRange : ToString(n) = s)
    ELSE NaN

\* 'disp_' + Date.now(), for the clock readings a behaviour can see
DispIds == [ms \in 1..(MaxPushes + 10) |-> "disp_" \o ToString(ms - 1)]

DateNow(t) == t \div EventsPerMs

NewId(t) == DispIds[DateNow(t) + 1]

\* ---------------------------------------------------------------- geometry
\* p * sqrt(l2) < q, for integers p, q and l2 >= 0
SqrtLess(p, l2, q) ==
    IF p = 0 THEN 0 < q
    ELSE IF p > 0 THEN q > 0 /\ p * p * l2 < q * q
    ELSE q >= 0 \/ p * p * l2 > q * q

isPointInPolyCross(pt, pi, pj) ==
    /\ \/ (pi.y <= pt.y /\ pt.y < pj.y)
       \/ (pj.y <= pt.y /\ pt.y < pi.y)
    /\ LET dy == pj.y - pi.y
           lhs == (pt.x - pi.x) * dy
           rhs == (pj.x - pi.x) * (pt.y - pi.y)
       IN  IF dy > 0 THEN lhs < rhs ELSE lhs > rhs

\* a test against the bounding box of the corners
isPointInBox(pt, poly) ==
    /\ \E i \in DOMAIN poly : poly[i].x <= pt.x
    /\ \E i \in DOMAIN poly : poly[i].x > pt.x
    /\ \E i \in DOMAIN poly : poly[i].y <= pt.y
    /\ \E i \in DOMAIN poly : poly[i].y > pt.y

\* even-odd count over the edges (i, j) = (1,4), (2,1), (3,2), (4,3)
isPointInPoly(pt, poly) ==
    LET n == Len(poly)
        prev(i) == IF i = 1 THEN n ELSE i - 1
        crossings == {i \in 1..n : isPointInPolyCross(pt, poly[i], poly[prev(i)])}
    IN  Cardinality(crossings) % 2 = 1

\* distToSegment(p, v, w) < limit.  Between the ends of the segment the
\* squared distance is cross^2 / l2; the products are kept within 32 bits by
\* answering from |cross| >= limit * (|dx| + |dy|) >= limit * sqrt(l2) first.
distToSegmentLess(p, v, w, limit) ==
    LET l2 == (v.x - w.x) * (v.x - w.x) + (v.y - w.y) * (v.y - w.y)
        pv2 == (p.x - v.x) * (p.x - v.x) + (p.y - v.y) * (p.y - v.y)
        pw2 == (p.x - w.x) * (p.x - w.x) + (p.y - w.y) * (p.y - w.y)
        dot == (p.x - v.x) * (w.x - v.x) + (p.y - v.y) * (w.y - v.y)
        cross == Abs((p.x - v.x) * (w.y - v.y) - (p.y - v.y) * (w.x - v.x))
    IN  IF l2 = 0 THEN pv2 < limit * limit
        ELSE IF dot <= 0 THEN pv2 < limit * limit
        ELSE IF dot >= l2 THEN pw2 < limit * limit
        ELSE IF cross >= limit * (Abs(w.x - v.x) + Abs(w.y - v.y)) THEN FALSE
        ELSE cross * cross < limit * limit * l2

\* 4 * getPolyCenter(poly)
getPolyCenter(poly) ==
    Pt(poly[1].x + poly[2].x + poly[3].x + poly[4].x,
       poly[1].y + poly[2].y + poly[3].y + poly[4].y)

\* rotatePoint for angleDeg a multiple of 90; center4 is 4 * center
rotatePoint(p, center4, angleDeg) ==
    LET k == ((angleDeg % 360) + 360) % 360
        px == 4 * p.x - center4.x
        py == 4 * p.y - center4.y
        rx == CASE k = 0 -> px [] k = 90 -> -py [] k = 180 -> -px [] OTHER -> py
        ry == CASE k = 0 -> py [] k = 90 -> px [] k = 180 -> -py [] OTHER -> -px
    IN  Pt((rx + center4.x) \div 4, (ry + center4.y) \div 4)

rotatePoints(points, center4, angleDeg) ==
    [i \in DOMAIN points |-> rotatePoint(points[i], center4, angleDeg)]

\* the rotated corners are integers
RotationExact(points, center4, angleDeg) ==
    LET k == ((angleDeg % 360) + 360) % 360
    IN  \A i \in DOMAIN points :
            LET px == 4 * points[i].x - center4.x
                py == 4 * points[i].y - center4.y
                rx == CASE k = 0 -> px [] k = 90 -> -py [] k = 180 -> -px [] OTHER -> py
                ry == CASE k = 0 -> py [] k = 90 -> px [] k = 180 -> -py [] OTHER -> -px
            IN  (rx + center4.x) % 4 = 0 /\ (ry + center4.y) % 4 = 0

\* Math.atan2(v.y, v.x) * 180 / Math.PI lies in (90, 180], (0, 180], (-180, -90)
\* complement: used to place currentAngle - rotateStartAngle in (-360, 360)
AngleAbove90(v) == v.x < 0 /\ v.y >= 0
AngleAbove0(v) == v.y > 0 \/ (v.y = 0 /\ v.x < 0)
AngleAboveMinus90(v) == v.y > 0 \/ (v.y = 0 /\ v.x # 0) \/ (v.y < 0 /\ v.x > 0) \/ (v.x = 0 /\ v.y = 0)

Dot(a, b) == a.x * b.x + a.y * b.y
Cross(a, b) == a.x * b.y - a.y * b.x

\* the angle of cur is the angle of start plus a multiple of 90 degrees
QuarterTurn(start, cur) ==
    \/ (start.x = 0 /\ start.y = 0 /\ cur.x = 0 /\ cur.y = 0)
    \/ /\ \/ start.x # 0
          \/ start.y # 0
       /\ \/ cur.x # 0
          \/ cur.y # 0
       /\ \/ Cross(start, cur) = 0
          \/ Dot(start, cur) = 0

\* currentAngle - rotateStartAngle, when QuarterTurn(start, cur)
AngleDelta(start, cur) ==
    IF Cross(start, cur) = 0 /\ Dot(start, cur) >= 0 THEN 0
    ELSE IF Dot(start, cur) = 0 /\ Cross(start, cur) > 0
         THEN (IF AngleAbove90(start) THEN -270 ELSE 90)
    ELSE IF Cross(start, cur) = 0
         THEN (IF AngleAbove0(start) THEN -180 ELSE 180)
    ELSE (IF AngleAboveMinus90(start) THEN -90 ELSE 270)


\* ------------------------------------------------------------------- state
VARIABLES
    displays,           \* window.appState.displays
    selectedCameraId,   \* window.appState.selectedCameraId
    activeDisplayId, isDragging, isResizing, isDrawing, drawingDisplayId,
    dragStartX, dragStartY, activeCornerIndex, originalCorners,
    isRotating, activeSideIndex, rotateStartAngle, rotateStartValue,
    displayCenter, undoStack, redoStack,
    mediaShown,         \* the image or video layer is displayed
    scale,              \* mediaRect.width / native width
    time,               \* events handled so far
    lastOp,             \* the handler that ran last, with its outcome
    pointer,            \* clientX, clientY of the last press or move a
                        \* gesture used
    gesture,            \* history variable: the collection, selection and
                        \* undo depth at the last press that entered a mode
    probe,              \* history variable of SpecUndoRedo
    heap, live, undoRefs, redoRefs, \* the objects behind the collections (SpecAlias)
    file,               \* the array /api/config/load answered with (SpecPersist)
    payload,            \* the array last posted to /api/config/save
    overlay,            \* the children of overlay-layer (SpecRender)
    tabs,               \* the SingleTabEnforcer of every tab (SpecTabs)
    inbox,              \* the messages of the channel each tab has yet to handle
    mapping,            \* a point taken to the rendered surface and back (SpecMapping)
    query,              \* a point and a polygon given to isPointInPoly (SpecPoly)
    dash,               \* the dashboard of monitor.js during captureSnapshot (SpecSnapshot)
    monitor             \* the polling state of monitor.js (SpecMonitor)

histVars == <<undoStack, redoStack>>
modeVars == <<isDragging, isResizing, isDrawing, isRotating, drawingDisplayId,
              activeCornerIndex, activeSideIndex>>
startVars == <<dragStartX, dragStartY, originalCorners, rotateStartAngle,
               rotateStartValue, displayCenter>>
envVars == <<selectedCameraId, mediaShown, scale>>
progVars == <<displays, activeDisplayId, histVars, modeVars, startVars, envVars>>
heapVars == <<heap, live, undoRefs, redoRefs>>
ioVars == <<file, payload>>
tabVars == <<tabs, inbox>>
moreVars == <<query, dash, monitor>>
vars == <<progVars, time, lastOp, pointer, gesture, probe, heapVars, ioVars,
          overlay, tabVars, mapping, moreVars>>

\* ------------------------------------------------------------- environment
Cameras == {"cam1", "cam2"}
Scales == {2}
OffsetX == 40           \* mediaRect.left - rect.left
OffsetY == 80           \* mediaRect.top - rect.top
NativeW == 400          \* target.naturalWidth
NativeH == 400          \* target.naturalHeight

\* pointer positions (container coordinates) offered to the handlers, with
\* the native point each is at scale 2
MousePoints ==
    { Pt(0, 0),         \* outside the media
      Pt(40, 80),       \* (0, 0)
      Pt(60, 100),      \* (10, 10)
      Pt(200, 400),     \* (80, 160): on the left side of region A
      Pt(360, 280),     \* (160, 100): rotation handle of region A
      Pt(520, 560) }    \* (240, 240): corner 2 of region A, inside region B

Rect(x0, y0, x1, y1) == <<Pt(x0, y0), Pt(x1, y0), Pt(x1, y1), Pt(x0, y1)>>

Region(id, name, cam, corners) ==
    [id |-> id, name |-> name, camId |-> cam, corners |-> corners,
     rotation |-> Num(0), enablePerspective |-> FALSE]

RegionA == Region("A", "Cluster", "cam1", Rect(80, 80, 240, 240))
RegionB == Region("B", "Console", "cam1", Rect(200, 200, 320, 320))
RegionC == Region("C", "Mirror", "cam2", Rect(200, 200, 320, 320))

\* A value of the configuration file: a number Num(n), a text, or null.
\* A text is the sequence of its characters.
Text(chars) == [t |-> "text", v |-> chars]
DigitChars == <<"0", "1", "2", "3", "4", "5", "6", "7", "8", "9">>
IsDigit(c) == \E k \in DOMAIN DigitChars : DigitChars[k] = c
DigitValue(c) == (CHOOSE k \in DOMAIN DigitChars : DigitChars[k] = c) - 1

\* the number of digits a text starts with
RECURSIVE LeadingDigits(_)
LeadingDigits(chars) ==
    IF chars = <<>> \/ ~IsDigit(Head(chars)) THEN 0
    ELSE 1 + LeadingDigits(Tail(chars))

\* the number the digits spell
RECURSIVE DecimalValue(_)
DecimalValue(digits) ==
    IF digits = <<>> THEN 0
    ELSE 10 * DecimalValue(Front(digits)) + DigitValue(digits[Len(digits)])

\* parseFloat: a number is kept; of a text the longest numeric prefix (an
\* optional sign and digits) is read and what follows it is ignored; a text
\* with no such prefix, and null, give NaN
parseFloat(val) ==
    IF val.t = "num" THEN val
    ELSE IF val.t # "text" THEN NaN
    ELSE LET neg == val.v # <<>> /\ Head(val.v) = "-"
             body == IF neg THEN Tail(val.v) ELSE val.v
             n == LeadingDigits(body)
             abs == DecimalValue(SubSeq(body, 1, n))
         IN  IF n = 0 THEN NaN ELSE Num(IF neg THEN -abs ELSE abs)

\* parseNum: what parseFloat reads, and 0 where it reads NaN
parseNum(val) == IF parseFloat(val) = NaN THEN 0 ELSE parseFloat(val).v

\* a display as the configuration file holds it
Saved(id, name, cam, corners, x, y, w, h, rotation) ==
    [id |-> id, name |-> name, camId |-> cam, corners |-> corners,
     x |-> x, y |-> y, w |-> w, h |-> h, rotation |-> rotation,
     enablePerspective |-> FALSE]

\* a point and a rectangle of the file, their coordinates numbers
FilePt(a, b) == Pt(Num(a), Num(b))
FileRect(x0, y0, x1, y1) ==
    <<FilePt(x0, y0), FilePt(x1, y0), FilePt(x1, y1), FilePt(x0, y1)>>

\* A with its four corners, B with a bounding box only, C with a corner
\* missing and no rotation
SavedA == Saved("A", "Cluster", "cam1", FileRect(80, 80, 240, 240),
                Num(80), Num(80), Num(160), Num(160), "0")
SavedB == Saved("B", "Console", "cam1", <<>>,
                Num(200), Num(200), Num(120), Num(120), "0")
SavedC == Saved("C", "Mirror", "cam2",
                <<FilePt(200, 200), FilePt(320, 200), FilePt(320, 320)>>,
                Num(200), Num(200), Num(120), Num(120), "")

SavedConfigs == { <<>>, <<SavedA, SavedB>>, <<SavedA, SavedC>> }

\* a load that installs the corners of the file as they are
loadDisplayKeepingCorners(display) ==
    [id |-> display.id, name |-> display.name, camId |-> display.camId,
     corners |-> [k \in DOMAIN display.corners |->
                    Pt(parseNum(display.corners[k].x),
                       parseNum(display.corners[k].y))],
     rotation |-> Num(OrZero(ParseInt(display.rotation))),
     enablePerspective |-> display.enablePerspective]

\* the body of the forEach of loadConfig
loadDisplay(display) ==
    LET x == parseNum(display.x)
        y == parseNum(display.y)
        w == parseNum(display.w)
        h == parseNum(display.h)
    IN  [id |-> display.id, name |-> display.name, camId |-> display.camId,
         corners |-> IF Len(display.corners) = 4
                     THEN [k \in 1..4 |-> Pt(parseNum(display.corners[k].x),
                                             parseNum(display.corners[k].y))]
                     ELSE Rect(x, y, x + w, y + h),
         rotation |-> Num(OrZero(ParseInt(display.rotation))),
         enablePerspective |-> display.enablePerspective]

loadConfig(savedDisplays) ==
    [i \in DOMAIN savedDisplays |-> loadDisplay(savedDisplays[i])]

\* the collections loadConfig installs in this model
LoadedConfigs == {loadConfig(c) : c \in SavedConfigs}

\* the texts the property panel can hold when Update is clicked
PropInputs ==
    { [name |-> "Dash", rotation |-> "90", persp |-> TRUE],
      [name |-> "New Display", rotation |-> "", persp |-> FALSE] }

\* ------------------------------------------------------------------ history
\* JSON.parse(JSON.stringify(ds)): NaN is written as null
Clone(ds) ==
    [i \in DOMAIN ds |->
        [ds[i] EXCEPT !.rotation = IF @ = NaN THEN Null ELSE @]]

\* saveState() without the limit on the history
PushUnlimited(stack, ds) == Append(stack, Clone(ds))

\* undoStack after saveState()
PushLimited(stack, ds) ==
    LET pushed == Append(stack, Clone(ds))
    IN  IF Len(pushed) > HistoryLimit THEN Tail(pushed) ELSE pushed

\* saveState() that keeps the redo stack
saveStateKeepingRedo ==
    /\ undoStack' = PushLimited(undoStack, displays)
    /\ redoStack' = redoStack

saveState ==
    /\ undoStack' = PushLimited(undoStack, displays)
    /\ redoStack' = <<>>

\* x, y, w, h saveConfig writes for a region
SavedBox(d) ==
    LET xs == {d.corners[i].x : i \in DOMAIN d.corners}
        ys == {d.corners[i].y : i \in DOMAIN d.corners}
        lo(S) == CHOOSE v \in S : \A u \in S : v <= u
        hi(S) == CHOOSE v \in S : \A u \in S : v >= u
    IN  [x |-> lo(xs), y |-> lo(ys), w |-> hi(xs) - lo(xs), h |-> hi(ys) - lo(ys)]


\* ---------------------------------------------------------------- hit test
toRendered(c) == Pt(OffsetX + c.x * scale, OffsetY + c.y * scale)
toNative(m) == Pt((m.x - OffsetX) \div scale, (m.y - OffsetY) \div scale)

InsideMedia(m) ==
    ~ \/ m.x < OffsetX
      \/ m.x > OffsetX + NativeW * scale
      \/ m.y < OffsetY
      \/ m.y > OffsetY + NativeH * scale

\* indices (in displays) of the regions of the selected camera, in test order
visibleDisplays == SelectSeq([i \in DOMAIN displays |-> i],
                             LAMBDA i : displays[i].camId = selectedCameraId)

Reverse(s) == [i \in DOMAIN s |-> s[Len(s) + 1 - i]]

\* the test order without the Alt modifier
displayOrderIgnoringAlt(altKey) == Reverse(visibleDisplays)

displayOrder(altKey) == IF altKey THEN visibleDisplays ELSE Reverse(visibleDisplays)

\* handleIdx: the last corner within the radius, -1 if none
CornerHit(d, m) ==
    LET near == {k \in 0..3 :
                    /\ Abs(m.x - toRendered(d.corners[k + 1]).x) < CornerRadius
                    /\ Abs(m.y - toRendered(d.corners[k + 1]).y) < CornerRadius}
    IN  IF near = {} THEN -1 ELSE CHOOSE k \in near : \A j \in near : j <= k

\* |mouse - (mid + n * 40)| < 15 on both axes, n the unit normal of side 0-1.
\* The side vector is reduced by its gcd (the normal is the same) and a
\* pointer further than 40 + 15 from the midpoint is answered first, which
\* keeps the products within 32 bits.
RotateHit(d, m) ==
    LET s0 == toRendered(d.corners[1])
        s1 == toRendered(d.corners[2])
        dx == s1.x - s0.x
        dy == s1.y - s0.y
        g == Gcd(Abs(dx), Abs(dy))
        ux == IF g = 0 THEN 0 ELSE dx \div g
        uy == IF g = 0 THEN 0 ELSE dy \div g
        l2 == IF g = 0 THEN 1 ELSE ux * ux + uy * uy
        ax == 2 * m.x - s0.x - s1.x
        ay == 2 * m.y - s0.y - s1.y
        bx == 2 * RotHandleOffset * uy
        by == -2 * RotHandleOffset * ux
        r == 2 * RotHandleRadius
        far == 2 * (RotHandleOffset + RotHandleRadius)
    IN  /\ Abs(ax) < far /\ Abs(ay) < far
        /\ SqrtLess(ax - r, l2, -bx)
        /\ SqrtLess(-(ax + r), l2, bx)
        /\ SqrtLess(ay - r, l2, -by)
        /\ SqrtLess(-(ay + r), l2, by)

\* sideIdx: the first side closer than the threshold, -1 if none
SideHit(d, m) ==
    LET near == {k \in 0..3 :
                    distToSegmentLess(m, toRendered(d.corners[k + 1]),
                                      toRendered(d.corners[((k + 1) % 4) + 1]),
                                      EdgeThreshold)}
    IN  IF near = {} THEN -1 ELSE CHOOSE k \in near : \A j \in near : k <= j

InteriorHit(d, m) == isPointInPoly(toNative(m), d.corners)

\* the loop body with the interior test moved to the front
HitKindInteriorFirst(d, m) ==
    IF InteriorHit(d, m) THEN "drag"
    ELSE IF CornerHit(d, m) # -1 THEN "corner"
    ELSE IF RotateHit(d, m) THEN "rotate"
    ELSE IF SideHit(d, m) # -1 THEN "side"
    ELSE "none"

\* what the body of the mousedown loop does for region d
HitKind(d, m) ==
    IF CornerHit(d, m) # -1 THEN "corner"
    ELSE IF RotateHit(d, m) THEN "rotate"
    ELSE IF SideHit(d, m) # -1 THEN "side"
    ELSE IF InteriorHit(d, m) THEN "drag"
    ELSE "none"

\* the loop: the first region of the order with any match
HitTest(m, altKey) ==
    LET order == displayOrder(altKey)
        hits == {k \in DOMAIN order : HitKind(displays[order[k]], m) # "none"}
    IN  IF hits = {} THEN [kind |-> "none", at |-> 0]
        ELSE LET k == CHOOSE h \in hits : \A j \in hits : h <= j
             IN  [kind |-> HitKind(displays[order[k]], m), at |-> order[k]]


\* ------------------------------------------------------------------ objects
\* The JavaScript objects behind the collections: the arrays (the live
\* collection and every snapshot), the region objects and, as one cell, the
\* corners array of a region with its four points.  A cell no array of the
\* program reaches is free.
HeapSize == (MaxAliasEvents + 2) * (1 + 2 * MaxRegions)
Addrs == 1..HeapSize
FreeCell == [kind |-> "free"]
ArrayObj(items) == [kind |-> "array", items |-> items]
CornersObj(pts) == [kind |-> "corners", pts |-> pts]
RegionObj(d, c) ==
    [kind |-> "region", id |-> d.id, name |-> d.name, camId |-> d.camId,
     rotation |-> d.rotation, enablePerspective |-> d.enablePerspective,
     corners |-> c]

\* the region the object at r describes
RegionAt(h, r) ==
    [id |-> h[r].id, name |-> h[r].name, camId |-> h[r].camId,
     corners |-> h[h[r].corners].pts, rotation |-> h[r].rotation,
     enablePerspective |-> h[r].enablePerspective]

\* the collection the array at a describes
DeepIn(h, a) == [i \in DOMAIN h[a].items |-> RegionAt(h, h[a].items[i])]

Range(f) == {f[i] : i \in DOMAIN f}

\* the cells of the array at a, of its regions and of their corners
Cells(h, a) ==
    {a} \cup Range(h[a].items) \cup {h[r].corners : r \in Range(h[a].items)}

FreeAddrs(h) == {a \in Addrs : h[a].kind = "free"}

RECURSIVE TakeFree(_, _)
TakeFree(S, n) ==
    IF n = 0 THEN <<>>
    ELSE LET x == CHOOSE y \in S : \A z \in S : y <= z
         IN  <<x>> \o TakeFree(S \ {x}, n - 1)

\* the cells no root reaches are free again
Collect(h, roots) ==
    LET used == UNION {Cells(h, a) : a \in roots}
    IN  [x \in Addrs |-> IF x \in used THEN h[x] ELSE FreeCell]

\* new objects for the regions ds, on the first free cells of h: the heap,
\* the region objects in order
Allocate(h, ds) ==
    LET n == Len(ds)
        fr == TakeFree(FreeAddrs(h), 2 * n)
    IN  [heap |-> [x \in Addrs |->
                    IF \E i \in 1..n : x = fr[i]
                    THEN LET i == CHOOSE j \in 1..n : x = fr[j]
                         IN  RegionObj(ds[i], fr[n + i])
                    ELSE IF \E i \in 1..n : x = fr[n + i]
                    THEN LET i == CHOOSE j \in 1..n : x = fr[n + j]
                         IN  CornersObj(ds[i].corners)
                    ELSE h[x]],
         refs |-> SubSeq(fr, 1, n)]

\* a new array of the region objects items
NewArray(h, items) ==
    LET a == CHOOSE y \in FreeAddrs(h) : \A z \in FreeAddrs(h) : y <= z
    IN  [heap |-> [h EXCEPT ![a] = ArrayObj(items)], ref |-> a]

\* a push of the array itself, with no copy
ShareInto(h, a) == [heap |-> h, ref |-> a]

\* JSON.parse(JSON.stringify(array at a)): a new array of new objects
CloneInto(h, a) ==
    LET c == Allocate(h, Clone(DeepIn(h, a)))
    IN  NewArray(c.heap, c.refs)

\* the heap that holds the loaded collection ds in a live array
Install(ds) ==
    LET c == Allocate([x \in Addrs |-> FreeCell], ds)
    IN  NewArray(c.heap, c.refs)

\* ----------------------------------------------------------- initial state
\* the module state and the application state once loadConfig has run
Constructed ==
    /\ displays \in LoadedConfigs
    /\ selectedCameraId = NULL
    /\ activeDisplayId = NULL
    /\ isDragging = FALSE /\ isResizing = FALSE
    /\ isDrawing = FALSE /\ isRotating = FALSE
    /\ drawingDisplayId = NULL
    /\ dragStartX = 0 /\ dragStartY = 0
    /\ activeCornerIndex = -1 /\ activeSideIndex = -1
    /\ originalCorners = <<>>
    /\ rotateStartAngle = Pt(0, 0)
    /\ rotateStartValue = 0
    /\ displayCenter = Pt(0, 0)
    /\ undoStack = <<>> /\ redoStack = <<>>
    /\ mediaShown = FALSE
    /\ scale \in Scales
    /\ time = 0
    /\ lastOp = "init"
    /\ pointer = Pt(0, 0)
    /\ gesture = [kind |-> "none", start |-> <<>>, active |-> NULL,
                  depth |-> 0, clean |-> FALSE]
    /\ probe = [phase |-> "free", base |-> <<>>, final |-> <<>>, n |-> 0, k |-> 0]

\* the objects are followed in SpecAlias only
Init ==
    /\ Constructed
    /\ heap = <<>> /\ live = 0
    /\ undoRefs = <<>> /\ redoRefs = <<>>
    /\ file = <<>> /\ payload = <<>>
    /\ overlay = <<>> /\ tabs = <<>> /\ inbox = <<>> /\ mapping = <<>>
    /\ query = <<>> /\ dash = <<>> /\ monitor = <<>>

Event(op) == time' = time + 1 /\ lastOp' = op /\ pointer' = pointer
\* a handler that used the position m of its event
EventAt(op, m) == time' = time + 1 /\ lastOp' = op /\ pointer' = m

\* ---------------------------------------------------------------- mousedown
\* no media target, or the pointer is outside the media rectangle
MouseDownInert(m) ==
    /\ ~mediaShown \/ ~InsideMedia(m)
    /\ Event("mousedown:inert")
    /\ UNCHANGED <<displays, activeDisplayId, histVars, modeVars, startVars, envVars>>

MouseDownCorner(m, altKey) ==
    LET hit == HitTest(m, altKey)
        d == displays[hit.at]
    IN  /\ mediaShown /\ InsideMedia(m)
        /\ hit.kind = "corner"
        /\ saveState
        /\ activeDisplayId' = d.id
        /\ activeCornerIndex' = CornerHit(d, m)
        /\ isResizing' = TRUE
        /\ dragStartX' = m.x /\ dragStartY' = m.y
        /\ originalCorners' = d.corners
        /\ EventAt("mousedown:corner", m)
        /\ UNCHANGED <<displays, isDragging, isDrawing, isRotating, drawingDisplayId,
                       activeSideIndex, rotateStartAngle, rotateStartValue,
                       displayCenter, envVars>>

MouseDownRotate(m, altKey) ==
    LET hit == HitTest(m, altKey)
        d == displays[hit.at]
        c4 == getPolyCenter(d.corners)
    IN  /\ mediaShown /\ InsideMedia(m)
        /\ hit.kind = "rotate"
        /\ saveState
        /\ activeDisplayId' = d.id
        /\ isRotating' = TRUE
        /\ displayCenter' = c4
        /\ rotateStartAngle' = Pt(4 * (m.x - OffsetX) - c4.x * scale,
                                  4 * (m.y - OffsetY) - c4.y * scale)
        /\ rotateStartValue' = OrZero(d.rotation)
        /\ originalCorners' = d.corners
        /\ EventAt("mousedown:rotate", m)
        /\ UNCHANGED <<displays, isDragging, isResizing, isDrawing, drawingDisplayId,
                       activeCornerIndex, activeSideIndex, dragStartX, dragStartY,
                       envVars>>

MouseDownSide(m, altKey) ==
    LET hit == HitTest(m, altKey)
        d == displays[hit.at]
    IN  /\ mediaShown /\ InsideMedia(m)
        /\ hit.kind = "side"
        /\ saveState
        /\ activeDisplayId' = d.id
        /\ activeSideIndex' = SideHit(d, m)
        /\ isResizing' = FALSE
        /\ dragStartX' = m.x /\ dragStartY' = m.y
        /\ originalCorners' = d.corners
        /\ EventAt("mousedown:side", m)
        /\ UNCHANGED <<displays, isDragging, isDrawing, isRotating, drawingDisplayId,
                       activeCornerIndex, rotateStartAngle, rotateStartValue,
                       displayCenter, envVars>>

MouseDownDrag(m, altKey) ==
    LET hit == HitTest(m, altKey)
        d == displays[hit.at]
    IN  /\ mediaShown /\ InsideMedia(m)
        /\ hit.kind = "drag"
        /\ saveState
        /\ activeDisplayId' = d.id
        /\ isDragging' = TRUE
        /\ dragStartX' = m.x /\ dragStartY' = m.y
        /\ originalCorners' = d.corners
        /\ EventAt("mousedown:drag", m)
        /\ UNCHANGED <<displays, isResizing, isDrawing, isRotating, drawingDisplayId,
                       activeCornerIndex, activeSideIndex, rotateStartAngle,
                       rotateStartValue, displayCenter, envVars>>

\* a draw branch that does not look at the media rectangle
MouseDownDrawAnywhere(m, altKey) ==
    LET hit == HitTest(m, altKey)
        n == toNative(m)
        id == NewId(time)
        newD == [id |-> id, name |-> "New Display", camId |-> selectedCameraId,
                 corners |-> <<n, n, n, n>>, rotation |-> Num(0),
                 enablePerspective |-> FALSE]
    IN  /\ mediaShown
        /\ hit.kind = "none"
        /\ Len(displays) < MaxRegions
        /\ saveState
        /\ isDrawing' = TRUE
        /\ displays' = Append(displays, newD)
        /\ activeDisplayId' = id
        /\ drawingDisplayId' = id
        /\ activeCornerIndex' = 2
        /\ originalCorners' = newD.corners
        /\ dragStartX' = m.x /\ dragStartY' = m.y
        /\ EventAt("mousedown:draw", m)
        /\ UNCHANGED <<isDragging, isResizing, isRotating, activeSideIndex,
                       rotateStartAngle, rotateStartValue, displayCenter, envVars>>

\* no region matched: a provisional region is appended
MouseDownDraw(m, altKey) ==
    LET hit == HitTest(m, altKey)
        n == toNative(m)
        id == NewId(time)
        newD == [id |-> id, name |-> "New Display", camId |-> selectedCameraId,
                 corners |-> <<n, n, n, n>>, rotation |-> Num(0),
                 enablePerspective |-> FALSE]
    IN  /\ mediaShown /\ InsideMedia(m)
        /\ hit.kind = "none"
        /\ Len(displays) < MaxRegions
        /\ saveState
        /\ isDrawing' = TRUE
        /\ displays' = Append(displays, newD)
        /\ activeDisplayId' = id
        /\ drawingDisplayId' = id
        /\ activeCornerIndex' = 2
        /\ originalCorners' = newD.corners
        /\ dragStartX' = m.x /\ dragStartY' = m.y
        /\ EventAt("mousedown:draw", m)
        /\ UNCHANGED <<isDragging, isResizing, isRotating, activeSideIndex,
                       rotateStartAngle, rotateStartValue, displayCenter, envVars>>


\* ---------------------------------------------------------------- mousemove
AnyMode ==
    isDragging \/ isResizing \/ isDrawing \/ isRotating \/ activeSideIndex # -1

\* displays.find(x => x.id === id): its index, 0 if there is none
FindIndex(ds, id) ==
    LET found == {i \in DOMAIN ds : ds[i].id = id}
    IN  IF found = {} THEN 0 ELSE CHOOSE i \in found : \A j \in found : i <= j

MovePt(c, ndx, ndy) == Pt(c.x + ndx, c.y + ndy)

\* the corners the isDrawing branch leaves in d
DrawnCorners(cs, ndx, ndy) ==
    <<cs[1],
      Pt(originalCorners[2].x + ndx, cs[2].y),
      Pt(originalCorners[3].x + ndx, originalCorners[3].y + ndy),
      Pt(cs[4].x, originalCorners[4].y + ndy)>>

DraggedCorners(ndx, ndy) ==
    [i \in DOMAIN originalCorners |-> MovePt(originalCorners[i], ndx, ndy)]

\* the isResizing branch: corner activeCornerIndex only
ResizedCorners(cs, ndx, ndy) ==
    [cs EXCEPT ![activeCornerIndex + 1] =
        MovePt(originalCorners[activeCornerIndex + 1], ndx, ndy)]

\* the activeSideIndex branch: both ends of the side
SideCorners(cs, ndx, ndy) ==
    LET i1 == activeSideIndex + 1
        i2 == ((activeSideIndex + 1) % 4) + 1
    IN  [cs EXCEPT ![i1] = MovePt(originalCorners[i1], ndx, ndy),
                   ![i2] = MovePt(originalCorners[i2], ndx, ndy)]

\* rotation after a rotate move by delta degrees
NormRotation(start, delta) ==
    LET r == JsRem(start + delta, 360)
    IN  IF r < 0 THEN r + 360 ELSE r

CurrentAngle(m) ==
    Pt(4 * (m.x - OffsetX) - displayCenter.x * scale,
       4 * (m.y - OffsetY) - displayCenter.y * scale)

\* no mode is active, or the active id matches no region
MouseMoveIdle(m) ==
    /\ ~AnyMode \/ FindIndex(displays, activeDisplayId) = 0
    /\ Event("mousemove:idle")
    /\ UNCHANGED <<displays, activeDisplayId, histVars, modeVars, startVars, envVars>>

\* Offered for the positions whose angle from the centre differs from the
\* start angle by a multiple of 90 degrees with integer rotated corners.
MouseMoveRotate(m) ==
    LET i == FindIndex(displays, activeDisplayId)
        delta == AngleDelta(rotateStartAngle, CurrentAngle(m))
    IN  /\ AnyMode /\ i # 0 /\ mediaShown
        /\ isRotating
        /\ QuarterTurn(rotateStartAngle, CurrentAngle(m))
        /\ RotationExact(originalCorners, displayCenter, delta)
        /\ displays' = [displays EXCEPT
                ![i].corners = rotatePoints(originalCorners, displayCenter, delta),
                ![i].rotation = Num(NormRotation(rotateStartValue, delta))]
        /\ EventAt("mousemove:rotate", m)
        /\ UNCHANGED <<activeDisplayId, histVars, modeVars, startVars, envVars>>

\* a move that adds the delta to the corners the last move left
MouseMoveGestureCumulative(m) ==
    LET i == FindIndex(displays, activeDisplayId)
        ndx == (m.x - dragStartX) \div scale
        ndy == (m.y - dragStartY) \div scale
        cs == displays[i].corners
    IN  /\ AnyMode /\ i # 0 /\ mediaShown
        /\ ~isRotating
        /\ displays' = [displays EXCEPT ![i].corners =
                IF isDrawing THEN DrawnCorners(cs, ndx, ndy)
                ELSE IF isDragging THEN [k \in DOMAIN cs |-> MovePt(cs[k], ndx, ndy)]
                ELSE IF isResizing THEN ResizedCorners(cs, ndx, ndy)
                ELSE SideCorners(cs, ndx, ndy)]
        /\ EventAt(IF isDrawing THEN "mousemove:draw"
                   ELSE IF isDragging THEN "mousemove:drag"
                   ELSE IF isResizing THEN "mousemove:corner"
                   ELSE "mousemove:side", m)
        /\ UNCHANGED <<activeDisplayId, histVars, modeVars, startVars, envVars>>

\* a move that takes a snapshot of its own
MouseMoveGestureSaving(m) ==
    LET i == FindIndex(displays, activeDisplayId)
        ndx == (m.x - dragStartX) \div scale
        ndy == (m.y - dragStartY) \div scale
        cs == displays[i].corners
    IN  /\ AnyMode /\ i # 0 /\ mediaShown
        /\ ~isRotating
        /\ saveState
        /\ displays' = [displays EXCEPT ![i].corners =
                IF isDrawing THEN DrawnCorners(cs, ndx, ndy)
                ELSE IF isDragging THEN DraggedCorners(ndx, ndy)
                ELSE IF isResizing THEN ResizedCorners(cs, ndx, ndy)
                ELSE SideCorners(cs, ndx, ndy)]
        /\ EventAt(IF isDrawing THEN "mousemove:draw"
                   ELSE IF isDragging THEN "mousemove:drag"
                   ELSE IF isResizing THEN "mousemove:corner"
                   ELSE "mousemove:side", m)
        /\ UNCHANGED <<activeDisplayId, modeVars, startVars, envVars>>

MouseMoveGesture(m) ==
    LET i == FindIndex(displays, activeDisplayId)
        ndx == (m.x - dragStartX) \div scale
        ndy == (m.y - dragStartY) \div scale
        cs == displays[i].corners
    IN  /\ AnyMode /\ i # 0 /\ mediaShown
        /\ ~isRotating
        /\ displays' = [displays EXCEPT ![i].corners =
                IF isDrawing THEN DrawnCorners(cs, ndx, ndy)
                ELSE IF isDragging THEN DraggedCorners(ndx, ndy)
                ELSE IF isResizing THEN ResizedCorners(cs, ndx, ndy)
                ELSE SideCorners(cs, ndx, ndy)]
        /\ EventAt(IF isDrawing THEN "mousemove:draw"
                   ELSE IF isDragging THEN "mousemove:drag"
                   ELSE IF isResizing THEN "mousemove:corner"
                   ELSE "mousemove:side", m)
        /\ UNCHANGED <<activeDisplayId, histVars, modeVars, startVars, envVars>>

\* ------------------------------------------------------------------ mouseup
\* the provisional region is narrower or lower than the minimum
TooSmall(d) ==
    \/ Abs(d.corners[1].x - d.corners[3].x) < MinDrawSize
    \/ Abs(d.corners[1].y - d.corners[3].y) < MinDrawSize

RemoveId(ds, id) == SelectSeq(ds, LAMBDA x : x.id # id)

\* a release that forgets to leave the edge mode
MouseUpKeepingSide ==
    LET i == FindIndex(displays, drawingDisplayId)
        discard == isDrawing /\ drawingDisplayId # NULL /\ i # 0 /\ TooSmall(displays[i])
        commit == isDrawing /\ drawingDisplayId # NULL /\ i # 0 /\ ~TooSmall(displays[i])
    IN  /\ displays' = IF discard THEN RemoveId(displays, drawingDisplayId) ELSE displays
        /\ activeDisplayId' = IF discard THEN NULL ELSE activeDisplayId
        /\ isDragging' = FALSE /\ isResizing' = FALSE
        /\ isDrawing' = FALSE /\ isRotating' = FALSE
        /\ activeCornerIndex' = -1
        /\ Event(IF discard THEN "mouseup:discard"
                 ELSE IF commit THEN "mouseup:commit" ELSE "mouseup")
        /\ UNCHANGED <<drawingDisplayId, activeSideIndex, histVars, startVars, envVars>>

MouseUp ==
    LET i == FindIndex(displays, drawingDisplayId)
        discard == isDrawing /\ drawingDisplayId # NULL /\ i # 0 /\ TooSmall(displays[i])
        commit == isDrawing /\ drawingDisplayId # NULL /\ i # 0 /\ ~TooSmall(displays[i])
    IN  /\ displays' = IF discard THEN RemoveId(displays, drawingDisplayId) ELSE displays
        /\ activeDisplayId' = IF discard THEN NULL ELSE activeDisplayId
        /\ isDragging' = FALSE /\ isResizing' = FALSE
        /\ isDrawing' = FALSE /\ isRotating' = FALSE
        /\ activeCornerIndex' = -1
        /\ activeSideIndex' = -1
        /\ Event(IF discard THEN "mouseup:discard"
                 ELSE IF commit THEN "mouseup:commit" ELSE "mouseup")
        /\ UNCHANGED <<drawingDisplayId, histVars, startVars, envVars>>

\* ---------------------------------------------------------------- undo/redo
\* undo() that records the current collection before it looks at the stack
undoRecordingFirst ==
    /\ redoStack' = Append(redoStack, Clone(displays))
    /\ IF undoStack = <<>>
       THEN UNCHANGED <<displays, undoStack>>
       ELSE /\ displays' = Last(undoStack)
            /\ undoStack' = Front(undoStack)
    /\ Event(IF undoStack = <<>> THEN "undo:empty" ELSE "undo")
    /\ UNCHANGED <<activeDisplayId, modeVars, startVars, envVars>>

undo ==
    /\ IF undoStack = <<>>
       THEN UNCHANGED <<displays, histVars>>
       ELSE /\ redoStack' = Append(redoStack, Clone(displays))
            /\ displays' = Last(undoStack)
            /\ undoStack' = Front(undoStack)
    /\ Event(IF undoStack = <<>> THEN "undo:empty" ELSE "undo")
    /\ UNCHANGED <<activeDisplayId, modeVars, startVars, envVars>>

\* a redo that leaves the entry it restores on the redo stack
redoKeepingEntry ==
    /\ IF redoStack = <<>>
       THEN UNCHANGED <<displays, histVars>>
       ELSE /\ undoStack' = Append(undoStack, Clone(displays))
            /\ displays' = Last(redoStack)
            /\ redoStack' = redoStack
    /\ Event(IF redoStack = <<>> THEN "redo:empty" ELSE "redo")
    /\ UNCHANGED <<activeDisplayId, modeVars, startVars, envVars>>

redo ==
    /\ IF redoStack = <<>>
       THEN UNCHANGED <<displays, histVars>>
       ELSE /\ undoStack' = Append(undoStack, Clone(displays))
            /\ displays' = Last(redoStack)
            /\ redoStack' = Front(redoStack)
    /\ Event(IF redoStack = <<>> THEN "redo:empty" ELSE "redo")
    /\ UNCHANGED <<activeDisplayId, modeVars, startVars, envVars>>


\* ----------------------------------------------------------- property panel
\* an update that takes its snapshot before it looks for the region
UpdateDisplaySavingFirst(in) ==
    LET i == FindIndex(displays, activeDisplayId)
    IN  /\ saveState
        /\ displays' = IF i = 0 THEN displays
                       ELSE [displays EXCEPT
                                ![i].name = in.name,
                                ![i].rotation = ParseInt(in.rotation),
                                ![i].enablePerspective = in.persp]
        /\ Event(IF i = 0 THEN "update:none" ELSE "update")
        /\ UNCHANGED <<activeDisplayId, modeVars, startVars, envVars>>

\* btn-update-display: nothing happens unless the active id matches a region
UpdateDisplay(in) ==
    LET i == FindIndex(displays, activeDisplayId)
    IN  /\ IF i = 0
           THEN UNCHANGED <<displays, histVars>>
           ELSE /\ saveState
                /\ displays' = [displays EXCEPT
                        ![i].name = in.name,
                        ![i].rotation = ParseInt(in.rotation),
                        ![i].enablePerspective = in.persp]
        /\ Event(IF i = 0 THEN "update:none" ELSE "update")
        /\ UNCHANGED <<activeDisplayId, modeVars, startVars, envVars>>

\* a deletion by displays.splice(displays.findIndex(...), 1): the index -1
\* of an unknown id removes the last region
DeleteDisplaySplicing ==
    LET i == FindIndex(displays, activeDisplayId)
        at == IF i = 0 THEN Len(displays) ELSE i
    IN  /\ saveState
        /\ displays' = [k \in 1..(Len(displays) - (IF displays = <<>> THEN 0 ELSE 1)) |->
                            IF k < at THEN displays[k] ELSE displays[k + 1]]
        /\ activeDisplayId' = NULL
        /\ Event("delete")
        /\ UNCHANGED <<modeVars, startVars, envVars>>

\* btn-delete-display
DeleteDisplay ==
    /\ saveState
    /\ displays' = RemoveId(displays, activeDisplayId)
    /\ activeDisplayId' = NULL
    /\ Event("delete")
    /\ UNCHANGED <<modeVars, startVars, envVars>>

\* close-prop-panel
ClosePanel ==
    /\ activeDisplayId' = NULL
    /\ Event("close")
    /\ UNCHANGED <<displays, histVars, modeVars, startVars, envVars>>

\* ------------------------------------------------------------------ toolbar
AddedRegion(id) ==
    [id |-> id, name |-> "New Display", camId |-> selectedCameraId,
     corners |-> Rect(100, 100, 400, 280), rotation |-> Num(0),
     enablePerspective |-> FALSE]

\* btn-add-display with no camera selected: the alert, after saveState()
AddDisplayRefused ==
    /\ selectedCameraId = NULL
    /\ saveState
    /\ Event("add:refused")
    /\ UNCHANGED <<displays, activeDisplayId, modeVars, startVars, envVars>>

startAddDisplayMode ==
    /\ selectedCameraId # NULL
    /\ Len(displays) < MaxRegions
    /\ saveState
    /\ displays' = Append(displays, AddedRegion(NewId(time)))
    /\ activeDisplayId' = NewId(time)
    /\ Event("add")
    /\ UNCHANGED <<modeVars, startVars, envVars>>

\* ------------------------------------------------------------------ sidebar
\* selectCamera(id) for a camera of the session: the media is hidden until
\* the image or the stream has loaded
selectCamera(id) ==
    /\ selectedCameraId' = id
    /\ mediaShown' = FALSE
    /\ UNCHANGED scale

MediaLoaded ==
    /\ selectedCameraId # NULL
    /\ ~mediaShown
    /\ mediaShown' = TRUE
    /\ UNCHANGED <<displays, activeDisplayId, histVars, modeVars, startVars,
                   selectedCameraId, scale, time, lastOp, pointer, gesture>>

SelectCameraClick(id) ==
    /\ selectCamera(id)
    /\ UNCHANGED <<displays, activeDisplayId, histVars, modeVars, startVars,
                   time, lastOp, pointer, gesture>>

selectDisplayFromList(id) ==
    LET i == FindIndex(displays, id)
    IN  /\ i # 0
        /\ activeDisplayId' = id
        /\ IF displays[i].camId # selectedCameraId
           THEN selectCamera(displays[i].camId)
           ELSE UNCHANGED envVars
        /\ Event("select")
        /\ UNCHANGED <<displays, histVars, modeVars, startVars>>

\* ------------------------------------------------- the handlers, on objects
\* What each handler does to the arrays and objects; the values it computes
\* are those of the handler above.
HeapRoots(l, u, r) == {l} \cup Range(u) \cup Range(r)

\* undoStack.push(state); if (undoStack.length > 50) undoStack.shift()
PushRef(stack, a) ==
    LET pushed == Append(stack, a)
    IN  IF Len(pushed) > HistoryLimit THEN Tail(pushed) ELSE pushed

\* saveState() and nothing else
HeapSaveState ==
    LET c == CloneInto(heap, live)
    IN  /\ undoRefs' = PushRef(undoRefs, c.ref)
        /\ redoRefs' = <<>>
        /\ live' = live
        /\ heap' = Collect(c.heap, HeapRoots(live', undoRefs', redoRefs'))

\* mousemove: d.corners[k].x = ... writes into the corners of d, and
\* d.corners = originalCorners.map(...) gives d new corners
HeapMove(m) ==
    LET i == FindIndex(DeepIn(heap, live), activeDisplayId)
        r == heap[live].items[i]
        b == heap[r].corners
        cs == heap[b].pts
        ndx == (m.x - dragStartX) \div scale
        ndy == (m.y - dragStartY) \div scale
        n == Allocate(heap, <<[RegionAt(heap, r) EXCEPT
                                 !.corners = DraggedCorners(ndx, ndy)]>>)
        b2 == n.heap[n.refs[1]].corners
    IN  /\ i # 0
        /\ heap' =
             IF isDrawing THEN [heap EXCEPT ![b].pts = DrawnCorners(cs, ndx, ndy)]
             ELSE IF isDragging
             THEN Collect([heap EXCEPT ![b2] = n.heap[b2], ![r].corners = b2],
                          HeapRoots(live, undoRefs, redoRefs))
             ELSE IF isResizing
             THEN [heap EXCEPT ![b].pts = ResizedCorners(cs, ndx, ndy)]
             ELSE [heap EXCEPT ![b].pts = SideCorners(cs, ndx, ndy)]
        /\ UNCHANGED <<live, undoRefs, redoRefs>>

\* mouseup: displays.filter(...) is a new array of the same objects
HeapMouseUp ==
    LET ds == DeepIn(heap, live)
        i == FindIndex(ds, drawingDisplayId)
        discard == isDrawing /\ drawingDisplayId # NULL /\ i # 0 /\ TooSmall(ds[i])
        f == NewArray(heap, SelectSeq(heap[live].items,
                                      LAMBDA r : heap[r].id # drawingDisplayId))
    IN  IF discard
        THEN /\ live' = f.ref
             /\ heap' = Collect(f.heap, HeapRoots(live', undoRefs, redoRefs))
             /\ UNCHANGED <<undoRefs, redoRefs>>
        ELSE UNCHANGED heapVars

HeapUndo ==
    LET c == CloneInto(heap, live)
    IN  IF undoRefs = <<>>
        THEN UNCHANGED heapVars
        ELSE /\ redoRefs' = Append(redoRefs, c.ref)
             /\ live' = Last(undoRefs)
             /\ undoRefs' = Front(undoRefs)
             /\ heap' = Collect(c.heap, HeapRoots(live', undoRefs', redoRefs'))

HeapRedo ==
    LET c == CloneInto(heap, live)
    IN  IF redoRefs = <<>>
        THEN UNCHANGED heapVars
        ELSE /\ undoRefs' = Append(undoRefs, c.ref)
             /\ live' = Last(redoRefs)
             /\ redoRefs' = Front(redoRefs)
             /\ heap' = Collect(c.heap, HeapRoots(live', undoRefs', redoRefs'))

\* btn-update-display: the fields of the object find() returned
HeapUpdate(in) ==
    LET i == FindIndex(DeepIn(heap, live), activeDisplayId)
        r == heap[live].items[i]
        c == CloneInto(heap, live)
    IN  IF i = 0
        THEN UNCHANGED heapVars
        ELSE /\ undoRefs' = PushRef(undoRefs, c.ref)
             /\ redoRefs' = <<>>
             /\ live' = live
             /\ heap' = Collect([c.heap EXCEPT
                                    ![r].name = in.name,
                                    ![r].rotation = ParseInt(in.rotation),
                                    ![r].enablePerspective = in.persp],
                                HeapRoots(live', undoRefs', redoRefs'))

\* btn-delete-display: displays.filter(...) is a new array
HeapDelete ==
    LET c == CloneInto(heap, live)
        f == NewArray(c.heap, SelectSeq(heap[live].items,
                                        LAMBDA r : heap[r].id # activeDisplayId))
    IN  /\ undoRefs' = PushRef(undoRefs, c.ref)
        /\ redoRefs' = <<>>
        /\ live' = f.ref
        /\ heap' = Collect(f.heap, HeapRoots(live', undoRefs', redoRefs'))

\* startAddDisplayMode: displays.push(newD) on the live array
HeapAdd ==
    LET c == CloneInto(heap, live)
        n == Allocate(c.heap, <<AddedRegion(NewId(time))>>)
    IN  /\ undoRefs' = PushRef(undoRefs, c.ref)
        /\ redoRefs' = <<>>
        /\ live' = live
        /\ heap' = Collect([n.heap EXCEPT ![live].items = Append(@, n.refs[1])],
                           HeapRoots(live', undoRefs', redoRefs'))

\* ------------------------------------------------------------ specification
PressOps == {"mousedown:corner", "mousedown:rotate", "mousedown:side",
             "mousedown:drag", "mousedown:draw"}
MoveOps == {"mousemove:idle", "mousemove:rotate", "mousemove:draw",
            "mousemove:drag", "mousemove:corner", "mousemove:side"}
UpOps == {"mouseup", "mouseup:discard", "mouseup:commit"}
\* the handlers that call saveState()
SnapshotOps == PressOps \cup {"update", "delete", "add", "add:refused"}

\* gesture records the state a press found; clean says that no mode was
\* active at that press and that only moves and releases followed it
TrackGesture ==
    gesture' =
        IF lastOp' \in PressOps
        THEN [kind |-> lastOp', start |-> displays, active |-> activeDisplayId,
              depth |-> Len(undoStack), clean |-> ~AnyMode]
        ELSE IF lastOp' \in MoveOps \cup UpOps THEN gesture
        ELSE [gesture EXCEPT !.clean = FALSE]

ListedIds == {displays[i].id : i \in DOMAIN displays}

\* the cameras of the sidebar the user clicks
ListedCameras == {"cam1"}

UserEvent ==
    \/ \E m \in MousePoints : MouseDownInert(m)
    \/ \E m \in MousePoints, altKey \in BOOLEAN : MouseDownCorner(m, altKey)
    \/ \E m \in MousePoints, altKey \in BOOLEAN : MouseDownRotate(m, altKey)
    \/ \E m \in MousePoints, altKey \in BOOLEAN : MouseDownSide(m, altKey)
    \/ \E m \in MousePoints, altKey \in BOOLEAN : MouseDownDrag(m, altKey)
    \/ \E m \in MousePoints, altKey \in BOOLEAN : MouseDownDraw(m, altKey)
    \/ \E m \in MousePoints : MouseMoveIdle(m)
    \/ \E m \in MousePoints : MouseMoveRotate(m)
    \/ \E m \in MousePoints : MouseMoveGesture(m)
    \/ MouseUp
    \/ undo
    \/ redo
    \/ \E in \in PropInputs : UpdateDisplay(in)
    \/ DeleteDisplay
    \/ ClosePanel
    \/ AddDisplayRefused
    \/ startAddDisplayMode
    \/ \E id \in ListedIds : selectDisplayFromList(id)

\* one user event of the budget
User(A) == time < MaxEvents /\ A /\ TrackGesture /\ UNCHANGED <<probe, heapVars, ioVars, overlay, tabVars, mapping, moreVars>>

Next ==
    \/ \E m \in MousePoints : User(MouseDownInert(m))
    \/ \E m \in MousePoints, altKey \in BOOLEAN : User(MouseDownCorner(m, altKey))
    \/ \E m \in MousePoints, altKey \in BOOLEAN : User(MouseDownRotate(m, altKey))
    \/ \E m \in MousePoints, altKey \in BOOLEAN : User(MouseDownSide(m, altKey))
    \/ \E m \in MousePoints, altKey \in BOOLEAN : User(MouseDownDrag(m, altKey))
    \/ \E m \in MousePoints, altKey \in BOOLEAN : User(MouseDownDraw(m, altKey))
    \/ \E m \in MousePoints : User(MouseMoveIdle(m))
    \/ \E m \in MousePoints : User(MouseMoveRotate(m))
    \/ \E m \in MousePoints : User(MouseMoveGesture(m))
    \/ User(MouseUp)
    \/ User(undo)
    \/ User(redo)
    \/ \E in \in PropInputs : User(UpdateDisplay(in))
    \/ User(DeleteDisplay)
    \/ User(ClosePanel)
    \/ User(AddDisplayRefused)
    \/ User(startAddDisplayMode)
    \/ \E id \in ListedIds : User(selectDisplayFromList(id))
    \/ (\E id \in ListedCameras : SelectCameraClick(id)) /\ UNCHANGED <<probe, heapVars, ioVars, overlay, tabVars, mapping, moreVars>>
    \/ MediaLoaded /\ UNCHANGED <<probe, heapVars, ioVars, overlay, tabVars, mapping, moreVars>>

Spec == Init /\ [][Next]_vars

TypeOK ==
    /\ Len(displays) <= MaxRegions + 1
    /\ Len(undoStack) <= HistoryLimit
    /\ pointer \in MousePoints \cup {Pt(0, 0)}

\* ------------------------------------------------- a long editing session
\* One region is selected in the list and its rotation field is edited over
\* and over, every edit typing the successor of the value shown; undo and
\* redo are pressed once the history is full.
InitHistory == Init /\ displays = <<RegionA, RegionB>>

NextValue(d) ==
    [name |-> d.name, rotation |-> ToString(OrZero(d.rotation) + 1),
     persp |-> d.enablePerspective]

HistoryFull == Len(undoStack) + Len(redoStack) = HistoryLimit

Edit(A) == time < MaxPushes /\ A /\ TrackGesture /\ UNCHANGED <<probe, heapVars, ioVars, overlay, tabVars, mapping, moreVars>>

NextHistory ==
    \/ /\ activeDisplayId = NULL
       /\ \E id \in ListedIds : Edit(selectDisplayFromList(id))
    \/ \E i \in DOMAIN displays :
          /\ displays[i].id = activeDisplayId
          /\ Edit(UpdateDisplay(NextValue(displays[i])))
    \/ HistoryFull /\ Edit(undo)
    \/ HistoryFull /\ Edit(redo)

SpecHistory == InitHistory /\ [][NextHistory]_vars

\* ------------------------------------------- mutations, then undo, then redo
\* The counting begins while no gesture is in progress.
\* probe.base is the collection when the counted mutations begin, probe.n the
\* snapshot-taking handlers that ran since, probe.final the collection when
\* the undos begin and probe.k the undos (then the redos) done so far.
HistoryOps == {"undo", "undo:empty", "redo", "redo:empty"}

ProbeMark ==
    /\ probe.phase = "free"
    /\ ~AnyMode
    /\ probe' = [probe EXCEPT !.phase = "mutate", !.base = displays, !.n = 0]
    /\ UNCHANGED <<progVars, time, lastOp, pointer, gesture>>
    /\ UNCHANGED <<heapVars, ioVars, overlay, tabVars, mapping, moreVars>>

ProbeEvent ==
    /\ probe.phase \in {"free", "mutate"}
    /\ time < MaxEvents
    /\ UserEvent /\ TrackGesture
    /\ probe.phase = "mutate" => lastOp' \notin HistoryOps
    /\ probe' = IF probe.phase = "mutate" /\ lastOp' \in SnapshotOps
                THEN [probe EXCEPT !.n = @ + 1] ELSE probe
    /\ UNCHANGED <<heapVars, ioVars, overlay, tabVars, mapping, moreVars>>

ProbeUndo ==
    /\ \/ probe.phase = "mutate" /\ probe.n >= 1
       \/ probe.phase = "undo" /\ probe.k < probe.n
    /\ undo /\ TrackGesture
    /\ probe' = [probe EXCEPT
            !.phase = "undo",
            !.final = IF probe.phase = "mutate" THEN displays ELSE @,
            !.k = IF probe.phase = "mutate" THEN 1 ELSE @ + 1]
    /\ UNCHANGED <<heapVars, ioVars, overlay, tabVars, mapping, moreVars>>

ProbeRedo ==
    /\ \/ probe.phase = "undo" /\ probe.k = probe.n
       \/ probe.phase = "redo" /\ probe.k < probe.n
    /\ redo /\ TrackGesture
    /\ probe' = [probe EXCEPT
            !.phase = "redo",
            !.k = IF probe.phase = "undo" THEN 1 ELSE @ + 1]
    /\ UNCHANGED <<heapVars, ioVars, overlay, tabVars, mapping, moreVars>>

NextUndoRedo ==
    \/ ProbeMark
    \/ ProbeEvent
    \/ ProbeUndo
    \/ ProbeRedo
    \/ (\E id \in ListedCameras : SelectCameraClick(id)) /\ UNCHANGED <<probe, heapVars, ioVars, overlay, tabVars, mapping, moreVars>>
    \/ MediaLoaded /\ UNCHANGED <<probe, heapVars, ioVars, overlay, tabVars, mapping, moreVars>>

SpecUndoRedo == Init /\ [][NextUndoRedo]_vars

\* ------------------------------------------------------- drawing sessions
\* Add Region, presses on empty canvas, moves, releases.
Draw(A) == time < MaxDrawEvents /\ A /\ TrackGesture /\ UNCHANGED <<probe, heapVars, ioVars, overlay, tabVars, mapping, moreVars>>

NextDraw ==
    \/ Draw(startAddDisplayMode)
    \/ \E m \in MousePoints, altKey \in BOOLEAN : Draw(MouseDownDraw(m, altKey))
    \/ \E m \in MousePoints : Draw(MouseMoveGesture(m))
    \/ Draw(MouseUp)
    \/ (\E id \in ListedCameras : SelectCameraClick(id)) /\ UNCHANGED <<probe, heapVars, ioVars, overlay, tabVars, mapping, moreVars>>
    \/ MediaLoaded /\ UNCHANGED <<probe, heapVars, ioVars, overlay, tabVars, mapping, moreVars>>

SpecDraw == Init /\ [][NextDraw]_vars

\* ------------------------------------------------------- gesture sessions
\* An empty configuration: regions are added and drawn, then pressed on a
\* corner, an edge or the interior, moved and released.
InitGesture == Init /\ displays = <<>>

Gest(A) == time < MaxGestureEvents /\ A /\ TrackGesture /\ UNCHANGED <<probe, heapVars, ioVars, overlay, tabVars, mapping, moreVars>>

\* the positions of the session: empty canvas at native (0,0) and (80,160),
\* the top edge of the added region at (160,100), its interior at (240,240)
GesturePoints == {Pt(40, 80), Pt(200, 400), Pt(360, 280), Pt(520, 560)}

NextGesture ==
    \/ Gest(startAddDisplayMode)
    \/ \E m \in GesturePoints : Gest(MouseDownCorner(m, FALSE))
    \/ \E m \in GesturePoints : Gest(MouseDownSide(m, FALSE))
    \/ \E m \in GesturePoints : Gest(MouseDownDrag(m, FALSE))
    \/ \E m \in GesturePoints : Gest(MouseDownDraw(m, FALSE))
    \/ \E m \in GesturePoints : Gest(MouseMoveGesture(m))
    \/ Gest(MouseUp)
    \/ (\E id \in ListedCameras : SelectCameraClick(id)) /\ UNCHANGED <<probe, heapVars, ioVars, overlay, tabVars, mapping, moreVars>>
    \/ MediaLoaded /\ UNCHANGED <<probe, heapVars, ioVars, overlay, tabVars, mapping, moreVars>>

SpecGesture == InitGesture /\ [][NextGesture]_vars

\* ------------------------------------------------- sessions, on objects
\* Regions A and B are loaded; the handlers run on the values and on the
\* objects at once.  A press at native (240,240) matches corner 2 of A with
\* Alt held and the interior of B without.
InitAlias ==
    /\ Constructed
    /\ displays = <<RegionA, RegionB>>
    /\ heap = Install(displays).heap
    /\ live = Install(displays).ref
    /\ undoRefs = <<>> /\ redoRefs = <<>>
    /\ file = <<>> /\ payload = <<>>
    /\ overlay = <<>> /\ tabs = <<>> /\ inbox = <<>> /\ mapping = <<>>
    /\ query = <<>> /\ dash = <<>> /\ monitor = <<>>

AliasPoints == {Pt(60, 100), Pt(520, 560)}

Alias(A, H) ==
    time < MaxAliasEvents /\ A /\ H /\ TrackGesture /\ UNCHANGED <<probe, ioVars, overlay, tabVars, mapping, moreVars>>

NextAlias ==
    \/ \E id \in ListedIds : Alias(selectDisplayFromList(id), UNCHANGED heapVars)
    \/ \E m \in AliasPoints, altKey \in BOOLEAN :
          Alias(MouseDownCorner(m, altKey), HeapSaveState)
    \/ \E m \in AliasPoints, altKey \in BOOLEAN :
          Alias(MouseDownDrag(m, altKey), HeapSaveState)
    \/ \E m \in AliasPoints : Alias(MouseMoveGesture(m), HeapMove(m))
    \/ Alias(MouseUp, HeapMouseUp)
    \/ Alias(undo, HeapUndo)
    \/ Alias(redo, HeapRedo)
    \/ \E in \in PropInputs : Alias(UpdateDisplay(in), HeapUpdate(in))
    \/ Alias(DeleteDisplay, HeapDelete)
    \/ Alias(startAddDisplayMode, HeapAdd)
    \/ (\E id \in ListedCameras : SelectCameraClick(id)) /\ UNCHANGED <<probe, heapVars, ioVars, overlay, tabVars, mapping, moreVars>>
    \/ MediaLoaded /\ UNCHANGED <<probe, heapVars, ioVars, overlay, tabVars, mapping, moreVars>>

SpecAlias == InitAlias /\ [][NextAlias]_vars

\* ================================================================ properties
\* the step is a run of one of the handlers ops
Ran(ops) == time' # time /\ lastOp' \in ops

MutatingOps == PressOps \cup {"update", "delete", "add"}

\* ------------------------------------------------------------------- C1
\* C1 (undo/redo symmetry): after N snapshot-taking mutations, N undos make
\* the collection equal to its content before the first of them, and N
\* redos afterwards make it equal to its content after the last.
C1_UndoRedoSymmetry ==
    /\ (probe.phase = "undo" /\ probe.k = probe.n) => displays = probe.base
    /\ (probe.phase = "redo" /\ probe.k = probe.n) => displays = probe.final

\* ------------------------------------------------------------------- C2
\* the rotation of the edited region, which counts the edits
Edited == displays[FindIndex(displays, activeDisplayId)]
Edits == OrZero(Edited.rotation)
\* no undo yet: one selection, then edits only
OnlyPushes == activeDisplayId # NULL /\ time = Edits + 1

\* C2 (history cap): the undo stack never holds more than 50 snapshots; a
\* saveState with 50 entries present evicts the oldest and keeps the others
\* in order; after k consecutive pushes the stack holds the min(k, 50) most
\* recent snapshots in push order.
C2_HistoryCap ==
    /\ [](Len(undoStack) <= HistoryLimit)
    /\ [](OnlyPushes =>
            /\ Len(undoStack) = Min2(Edits, HistoryLimit)
            /\ \A i \in DOMAIN undoStack :
                  LET j == Edits - Len(undoStack) + i
                      snap == undoStack[i]
                  IN  snap[FindIndex(snap, activeDisplayId)].rotation = Num(j - 1))
    /\ [][(Ran(SnapshotOps) /\ Len(undoStack) = HistoryLimit) =>
            /\ Len(undoStack') = HistoryLimit
            /\ \A i \in 1..(HistoryLimit - 1) : undoStack'[i] = undoStack[i + 1]]_vars

\* more than 50 consecutive pushes happened
C2_Witness == OnlyPushes /\ Edits > HistoryLimit /\ Len(undoStack) = HistoryLimit

\* ------------------------------------------------------------------- C3
\* C3 (redo cleared): every mutating action (a press that starts a gesture,
\* a property update, a deletion, Add Region) leaves the redo stack empty,
\* and a redo right after it changes nothing.
C3_RedoCleared ==
    /\ [](lastOp \in MutatingOps => redoStack = <<>>)
    /\ [][(lastOp \in MutatingOps /\ Ran({"redo", "redo:empty"})) =>
            UNCHANGED <<displays, histVars>>]_vars

\* a redo was tried right after a mutating action and found nothing
C3_Witness == lastOp = "redo:empty" /\ undoStack # <<>> /\ displays # <<>>

\* ------------------------------------------------------------------- C4
\* C4 (snapshot before mutation): when a press enters a gesture, or a
\* property update or deletion is applied, the snapshot pushed on the undo
\* stack equals the collection exactly as it was before the action.
C4_SnapshotBeforeMutation ==
    [][Ran(PressOps \cup {"update", "delete"}) =>
            undoStack' # <<>> /\ Last(undoStack') = displays]_vars

\* ------------------------------------------------------------------- C5
\* C5 (undo/redo step): undo on a non-empty undo stack pushes a copy of the
\* current collection onto the redo stack, pops the most recent snapshot and
\* makes it the live collection; redo is the mirror image.
C5_UndoRedoStep ==
    [][/\ (Ran({"undo"}) /\ undoStack # <<>>) =>
            /\ redoStack' = Append(redoStack, displays)
            /\ displays' = Last(undoStack)
            /\ undoStack' = Front(undoStack)
       /\ (Ran({"redo"}) /\ redoStack # <<>>) =>
            /\ undoStack' = Append(undoStack, displays)
            /\ displays' = Last(redoStack)
            /\ redoStack' = Front(redoStack)]_vars

\* ------------------------------------------------------------------- C6
\* C6 (empty history): undo with an empty undo stack and redo with an empty
\* redo stack change neither the collection, nor the selection, nor either
\* stack.
C6_EmptyHistoryNoOp ==
    [][/\ (Ran({"undo", "undo:empty"}) /\ undoStack = <<>>) =>
            UNCHANGED <<displays, activeDisplayId, undoStack, redoStack>>
       /\ (Ran({"redo", "redo:empty"}) /\ redoStack = <<>>) =>
            UNCHANGED <<displays, activeDisplayId, undoStack, redoStack>>]_vars

\* undo ran on an empty undo stack while a region was selected
C6_Witness ==
    /\ lastOp = "undo:empty" /\ undoStack = <<>>
    /\ activeDisplayId # NULL /\ displays # <<>>

\* ------------------------------------------------------------- C7 and C8
\* a draw gesture that began with no mode active was released, and only
\* moves and releases were handled since its press
DrawReleased ==
    lastOp \in UpOps /\ gesture.kind = "mousedown:draw" /\ gesture.clean

\* the native points of the press and of the last position of the gesture
PressPoint == toNative(Pt(dragStartX, dragStartY))
ReleasePoint == toNative(pointer)
DrawnWidth == Abs(ReleasePoint.x - PressPoint.x)
DrawnHeight == Abs(ReleasePoint.y - PressPoint.y)

\* C7 (discard on too small): when a draw gesture is released with a native
\* width or height below 20, the collection after the release equals the
\* collection before the press.
C7_DiscardTooSmall ==
    (DrawReleased /\ (DrawnWidth < MinDrawSize \/ DrawnHeight < MinDrawSize))
        => displays = gesture.start

\* C8 (commit on sufficient size): a draw gesture pressed at a and released
\* at b with |b.x-a.x| >= 20 and |b.y-a.y| >= 20 leaves exactly one new
\* region, selected, with corners [a, (b.x,a.y), b, (a.x,b.y)] and saved
\* bounding box (min x, min y, |b.x-a.x|, |b.y-a.y|).
C8_CommitDrawn ==
    (DrawReleased /\ DrawnWidth >= MinDrawSize /\ DrawnHeight >= MinDrawSize)
        => LET a == PressPoint
               b == ReleasePoint
               d == Last(displays)
           IN  /\ Len(displays) = Len(gesture.start) + 1
               /\ SubSeq(displays, 1, Len(gesture.start)) = gesture.start
               /\ d.corners = <<a, Pt(b.x, a.y), b, Pt(a.x, b.y)>>
               /\ activeDisplayId = d.id
               /\ SavedBox(d) = [x |-> Min2(a.x, b.x), y |-> Min2(a.y, b.y),
                                 w |-> DrawnWidth, h |-> DrawnHeight]

\* ------------------------------------------------------------- C9 and C10
NearCorners(d, m) ==
    {k \in 0..3 : /\ Abs(m.x - toRendered(d.corners[k + 1]).x) < CornerRadius
                  /\ Abs(m.y - toRendered(d.corners[k + 1]).y) < CornerRadius}
NearSides(d, m) ==
    {k \in 0..3 : distToSegmentLess(m, toRendered(d.corners[k + 1]),
                                    toRendered(d.corners[((k + 1) % 4) + 1]),
                                    EdgeThreshold)}
AnyMatch(d, m) ==
    \/ NearCorners(d, m) # {}
    \/ RotateHit(d, m)
    \/ NearSides(d, m) # {}
    \/ InteriorHit(d, m)

\* the mode a press at m on region d has to enter
ModeEntered(d, m) ==
    IF NearCorners(d, m) # {}
    THEN lastOp' = "mousedown:corner" /\ isResizing'
         /\ activeCornerIndex' \in NearCorners(d, m)
    ELSE IF RotateHit(d, m)
    THEN lastOp' = "mousedown:rotate" /\ isRotating'
    ELSE IF NearSides(d, m) # {}
    THEN lastOp' = "mousedown:side" /\ activeSideIndex' \in NearSides(d, m)
    ELSE InteriorHit(d, m) /\ lastOp' = "mousedown:drag" /\ isDragging'

\* C9 (priority within a region): the mode a press enters on the region it
\* selects is the first that matches in the order corner handle (with that
\* corner's index), rotation handle, edge (with that edge's index), interior.
C9_HitPriority ==
    [][Ran(PressOps \ {"mousedown:draw"}) =>
        \A i \in DOMAIN displays :
            (/\ displays[i].camId = selectedCameraId
             /\ displays[i].id = activeDisplayId'
             /\ displays[i].corners = originalCorners')
                => ModeEntered(displays[i], pointer')]_vars

\* a press on a rotation handle that lies inside its region entered rotating
C9_Witness ==
    \E i \in DOMAIN displays :
        /\ displays[i].id = activeDisplayId
        /\ lastOp = "mousedown:rotate"
        /\ isRotating
        /\ InteriorHit(displays[i], pointer)

\* the step is the mousedown handler run on the event (m, altKey)
PressOn(m, altKey) ==
    \/ lastOp' = "mousedown:corner" /\ MouseDownCorner(m, altKey)
    \/ lastOp' = "mousedown:rotate" /\ MouseDownRotate(m, altKey)
    \/ lastOp' = "mousedown:side" /\ MouseDownSide(m, altKey)
    \/ lastOp' = "mousedown:drag" /\ MouseDownDrag(m, altKey)

\* C10 (region order): among the regions of the selected camera a normal
\* press selects the matching region latest in the collection, whatever a
\* region behind it would match, and a press with Alt held selects the
\* matching region earliest in the collection.
C10_RegionOrder ==
    [][Ran(PressOps \ {"mousedown:draw"}) =>
        \A altKey \in BOOLEAN :
            PressOn(pointer', altKey) =>
                LET cand == {i \in DOMAIN displays :
                                /\ displays[i].camId = selectedCameraId
                                /\ AnyMatch(displays[i], pointer')}
                    w == IF altKey
                         THEN CHOOSE i \in cand : \A j \in cand : i <= j
                         ELSE CHOOSE i \in cand : \A j \in cand : i >= j
                IN  /\ cand # {}
                    /\ activeDisplayId' = displays[w].id
                    /\ originalCorners' = displays[w].corners]_vars

\* a normal press inside the front region, on a corner of the region behind
\* it, started a drag of the front region
C10_Witness ==
    /\ lastOp = "mousedown:drag"
    /\ \E i, j \in DOMAIN displays :
          /\ i < j
          /\ displays[j].id = activeDisplayId
          /\ displays[i].camId = displays[j].camId
          /\ NearCorners(displays[i], pointer) # {}
          /\ InteriorHit(displays[j], pointer)

\* ------------------------------------------------------------------ C11
\* no interaction mode is active
Idle ==
    /\ ~isDragging /\ ~isResizing /\ ~isDrawing /\ ~isRotating
    /\ activeCornerIndex = -1 /\ activeSideIndex = -1

\* C11 (idle on release): after any mouseup, whatever mode was active, no
\* interaction mode is active (the four flags false, both indices -1), and
\* a move that follows without a new press changes no region.
C11_IdleOnRelease ==
    /\ [](lastOp \in UpOps => Idle)
    /\ [][(lastOp \in UpOps /\ Ran(MoveOps)) => UNCHANGED displays]_vars

\* an edge gesture was pressed and released, and a move followed the release
C11_Witness ==
    /\ lastOp = "mousemove:idle"
    /\ gesture.kind = "mousedown:side" /\ gesture.clean
    /\ Idle

\* ------------------------------------------------------------------ C12
\* the interaction modes that are active
ActiveModes ==
    {k \in {"drag", "corner", "draw", "rotate", "side"} :
        \/ k = "drag" /\ isDragging
        \/ k = "corner" /\ isResizing
        \/ k = "draw" /\ isDrawing
        \/ k = "rotate" /\ isRotating
        \/ k = "side" /\ activeSideIndex # -1}

\* C12 (re-entrant presses): a press handled while a gesture is active
\* pushes no snapshot, creates no region and leaves the mode, the
\* gesture-start corners and the selection as they were, so that at most
\* one interaction mode is ever active.
C12_ReentrantPressIgnored ==
    /\ [][(AnyMode /\ Ran(PressOps \cup {"mousedown:inert"})) =>
            UNCHANGED <<displays, activeDisplayId, histVars, modeVars,
                        originalCorners>>]_vars
    /\ [](Cardinality(ActiveModes) <= 1)

\* ------------------------------------------------------------------ C13
\* C13 (inert press): a press while no media is displayed, or at a position
\* outside the displayed media rectangle, leaves the collection, the
\* selection, both stacks and the interaction mode unchanged: every run of
\* the mousedown handler either changes none of them or had media displayed
\* and its position inside the media rectangle.
C13_InertPress ==
    [][Ran(PressOps \cup {"mousedown:inert"}) =>
        \/ UNCHANGED <<displays, activeDisplayId, histVars, modeVars>>
        \/ mediaShown /\ InsideMedia(pointer')]_vars

\* a press outside the displayed media, with regions of the camera present
C13_Witness ==
    /\ lastOp = "mousedown:inert"
    /\ mediaShown
    /\ visibleDisplays # <<>>

\* ----------------------------------------------------------- C14 to C17
\* the native delta of the last move: (pointer - pointer at press) / scale
NativeDelta ==
    Pt((pointer.x - dragStartX) \div scale, (pointer.y - dragStartY) \div scale)

\* a move of a gesture of the given kind that began with no mode active and
\* was followed by moves only
Moved(press, move) ==
    lastOp = move /\ gesture.kind = press /\ gesture.clean

\* the region the press selected, where the selected id and the corners
\* copied at the press tell it from every other region
Pressed ==
    LET match == {i \in DOMAIN gesture.start :
                    /\ gesture.start[i].id = activeDisplayId
                    /\ gesture.start[i].corners = originalCorners}
    IN  IF Cardinality(match) = 1 THEN match ELSE {}

Translated(c) == Pt(c.x + NativeDelta.x, c.y + NativeDelta.y)

\* C14 (dragging): after any move of a drag gesture every corner of the
\* dragged region is its gesture-start position plus the native delta
\* (pointer - pointer at press) / scale, so that all pairwise corner
\* differences are those of the start.
C14_DragTranslates ==
    Moved("mousedown:drag", "mousemove:drag") =>
        \A i \in Pressed :
            /\ i \in DOMAIN displays
            /\ \A k \in 1..4 :
                  displays[i].corners[k] = Translated(gesture.start[i].corners[k])
            /\ \A k, l \in 1..4 :
                  /\ displays[i].corners[k].x - displays[i].corners[l].x
                       = originalCorners[k].x - originalCorners[l].x
                  /\ displays[i].corners[k].y - displays[i].corners[l].y
                       = originalCorners[k].y - originalCorners[l].y

\* C15 (corner resize): after any move of a corner gesture the matched
\* corner of the region is its gesture-start position plus the native
\* delta, and the other three corners have their gesture-start values.
C15_CornerResize ==
    Moved("mousedown:corner", "mousemove:corner") =>
        \A i \in Pressed :
            /\ i \in DOMAIN displays
            /\ \A k \in 1..4 :
                  displays[i].corners[k] =
                      IF k = activeCornerIndex + 1
                      THEN Translated(gesture.start[i].corners[k])
                      ELSE gesture.start[i].corners[k]

\* C16 (edge resize): after any move of an edge gesture on edge i the
\* corners i and (i+1) mod 4 of the region are their gesture-start positions
\* plus the native delta and the other two have their gesture-start values.
C16_EdgeResize ==
    Moved("mousedown:side", "mousemove:side") =>
        \A i \in Pressed :
            /\ i \in DOMAIN displays
            /\ \A k \in 0..3 :
                  displays[i].corners[k + 1] =
                      IF k = activeSideIndex \/ k = (activeSideIndex + 1) % 4
                      THEN Translated(gesture.start[i].corners[k + 1])
                      ELSE gesture.start[i].corners[k + 1]

\* C17 (drawing): after every move of a draw gesture the provisional region
\* is the axis-aligned rectangle anchored at the press: corner 0 at the
\* native press point, corner 2 at the native pointer position, corner 1 at
\* (corner2.x, corner0.y) and corner 3 at (corner0.x, corner2.y).
C17_DrawnRectangle ==
    Moved("mousedown:draw", "mousemove:draw") =>
        LET a == PressPoint
            b == toNative(pointer)
            i == Len(gesture.start) + 1
        IN  /\ i \in DOMAIN displays
            /\ displays[i].corners = <<a, Pt(b.x, a.y), b, Pt(a.x, b.y)>>

\* ------------------------------------------------------------------ C18
\* an integer number of degrees in [0, 360)
Degrees == {Num(n) : n \in 0..359}

\* C18 (rotation range): in every reachable state the rotation of every
\* region is an integer in [0, 360); a rotate move sets it to (rotation at
\* press + delta in whole degrees) mod 360, non-negative; loading, property
\* updates, undo and redo leave no other value.
C18_RotationRange ==
    /\ [](\A i \in DOMAIN displays : displays[i].rotation \in Degrees)
    /\ [][Ran({"mousemove:rotate"}) =>
            \E i \in DOMAIN displays, n \in 0..359 :
                /\ displays'[i].rotation = Num(n)
                /\ (rotateStartValue
                      + AngleDelta(rotateStartAngle, CurrentAngle(pointer'))
                      - n) % 360 = 0]_vars

\* ------------------------------------------------------------------ C19
FourCorners(ds) == \A i \in DOMAIN ds : Len(ds[i].corners) = 4

\* C19 (four corners): in every reachable state every region of the
\* collection, the provisional region of a draw gesture included, and every
\* region of a snapshot that undo or redo can restore, has exactly 4
\* corners.
C19_FourCorners ==
    /\ FourCorners(displays)
    /\ \A k \in DOMAIN undoStack : FourCorners(undoStack[k])
    /\ \A k \in DOMAIN redoStack : FourCorners(redoStack[k])

\* a region loaded from a bounding box is in the collection beside the
\* provisional region of a draw gesture that has moved
C19_Witness ==
    /\ lastOp = "mousemove:draw"
    /\ \E i \in DOMAIN displays : displays[i].id = "B"
    /\ \E i \in DOMAIN displays :
          /\ displays[i].id = drawingDisplayId
          /\ displays[i].corners[1] # displays[i].corners[3]

\* ------------------------------------------------------------------ C20
\* the cells a stacked snapshot has in common with the live collection
SharedCells ==
    UNION {Cells(heap, a) \cap Cells(heap, live) :
             a \in Range(undoRefs) \cup Range(redoRefs)}

\* C20 (independent snapshots): no snapshot of the undo or the redo stack
\* shares a region object or a corners object with the live collection, and
\* every stacked snapshot still has the content it was pushed with, whatever
\* has been written into the live regions since, also after undo and redo
\* have made a former snapshot the live collection.
C20_SnapshotsIndependent ==
    /\ SharedCells = {}
    /\ Len(undoRefs) = Len(undoStack)
    /\ Len(redoRefs) = Len(redoStack)
    /\ \A k \in DOMAIN undoRefs : DeepIn(heap, undoRefs[k]) = undoStack[k]
    /\ \A k \in DOMAIN redoRefs : DeepIn(heap, redoRefs[k]) = redoStack[k]

\* a corner was moved in the collection an undo installed, which differs
\* from the snapshot the undo left on the redo stack
C20_Witness ==
    /\ lastOp = "mousemove:corner"
    /\ redoRefs # <<>>
    /\ DeepIn(heap, live) # DeepIn(heap, Last(redoRefs))
    /\ DeepIn(heap, live) = displays

\* ------------------------------------------------------------------ C21
IdsOf(ds) == {ds[i].id : i \in DOMAIN ds}

\* the ids of the regions that exist or that a snapshot remembers
KnownIds ==
    IdsOf(displays)
        \cup UNION {IdsOf(undoStack[k]) : k \in DOMAIN undoStack}
        \cup UNION {IdsOf(redoStack[k]) : k \in DOMAIN redoStack}

\* C21 (unique ids): no two regions of the collection share an id, and a
\* region created by a draw press or by Add Region never receives the id
\* of a region that exists or that existed earlier in the session.
C21_UniqueIds ==
    /\ [](\A i, j \in DOMAIN displays :
            displays[i].id = displays[j].id => i = j)
    /\ [][Ran({"add", "mousedown:draw"}) =>
            /\ Len(displays') = Len(displays) + 1
            /\ Last(displays').id \notin KnownIds]_vars

\* ------------------------------------------------------------------ C22
\* C22 (unknown id on remove): when the delete action runs while the
\* selected id is null or matches no region, the collection is unchanged;
\* the handler runs to its end in every state.
C22_DeleteUnknownNoOp ==
    [][(Ran({"delete"}) /\ activeDisplayId \notin IdsOf(displays)) =>
            displays' = displays]_vars

\* a deletion ran on a non-empty collection and removed nothing
C22_Witness ==
    /\ lastOp = "delete"
    /\ displays # <<>>
    /\ undoStack # <<>>
    /\ Len(Last(undoStack)) = Len(displays)

\* ------------------------------------------------------------------ C23
\* C23 (property edit): an update of the selected region pushes exactly one
\* snapshot and clears the redo stack, keeps the corners, the id and the
\* camera of that region and leaves every other region as it was; when the
\* selected id matches no region nothing changes, and no snapshot is taken.
C23_PropertyEdit ==
    [][Ran({"update", "update:none"}) =>
        LET i == FindIndex(displays, activeDisplayId)
        IN  IF i = 0
            THEN UNCHANGED <<displays, activeDisplayId, undoStack, redoStack,
                             modeVars>>
            ELSE /\ Len(undoStack') = Min2(Len(undoStack) + 1, HistoryLimit)
                 /\ redoStack' = <<>>
                 /\ Last(undoStack')[i].name = displays[i].name
                 /\ Last(undoStack')[i].enablePerspective
                       = displays[i].enablePerspective
                 /\ Len(displays') = Len(displays)
                 /\ \A j \in DOMAIN displays : j # i => displays'[j] = displays[j]
                 /\ displays'[i].corners = displays[i].corners
                 /\ displays'[i].id = displays[i].id
                 /\ displays'[i].camId = displays[i].camId
                 /\ UNCHANGED <<activeDisplayId, modeVars>>]_vars

\* an update renamed one of two regions
C23_Witness ==
    /\ lastOp = "update"
    /\ Len(displays) >= 2
    /\ undoStack # <<>>
    /\ \E i \in DOMAIN displays :
          /\ displays[i].name = "Dash"
          /\ Last(undoStack)[i].name # "Dash"

\* ------------------------------------------------------------------ C24
\* C24 (selection after a discard): after the release of a draw gesture
\* that was too small, the selected id is the one that was selected before
\* the press of that gesture.
C24_DiscardRevertsSelection ==
    (lastOp = "mouseup:discard" /\ gesture.kind = "mousedown:draw"
        /\ gesture.clean)
        => activeDisplayId = gesture.active

\* ============================================================== persistence
\* The configuration view is opened on a file the server answers with, the
\* regions are loaded, a camera is chosen, a region may be dragged, and the
\* configuration is saved.
MaxFileRegions == 2
MaxPersistEvents == 5

\* texts of the file
TextAbc == Text(<<"a", "b", "c">>)
Text80 == Text(<<"8", "0">>)
Text120 == Text(<<"1", "2", "0">>)
Text240px == Text(<<"2", "4", "0", "p", "x">>)
TextMinus8 == Text(<<"-", "8">>)

FileBox(x, y, w, h) == [x |-> x, y |-> y, w |-> w, h |-> h]
NumberBox == FileBox(Num(200), Num(200), Num(120), Num(120))
\* a box of texts and null
TextBox == FileBox(TextAbc, Null, Text120, Text240px)

\* the corners and the box a region of the file carries
FileShapes ==
    { \* no corners, a box of numbers
      [corners |-> <<>>, box |-> NumberBox],
      \* no corners, a box of texts and null
      [corners |-> <<>>, box |-> TextBox],
      \* three corners
      [corners |-> <<FilePt(200, 200), FilePt(320, 200), FilePt(320, 320)>>,
       box |-> NumberBox],
      \* four corners and their box
      [corners |-> FileRect(80, 80, 240, 240),
       box |-> FileBox(Num(80), Num(80), Num(160), Num(160))],
      \* four corners and a box that is not theirs
      [corners |-> FileRect(80, 80, 240, 240), box |-> NumberBox],
      \* four corners whose coordinates are texts or null
      [corners |-> << Pt(Text80, Num(80)), Pt(Num(240), TextAbc),
                      Pt(Text240px, TextMinus8), Pt(Null, Num(240)) >>,
       box |-> TextBox],
      \* four corners, one of them null
      [corners |-> <<FilePt(80, 80), Null, FilePt(240, 240), FilePt(80, 240)>>,
       box |-> NumberBox],
      \* five corners
      [corners |-> <<FilePt(80, 80), FilePt(240, 80), FilePt(240, 240),
                     FilePt(160, 300), FilePt(80, 240)>>,
       box |-> NumberBox] }

FileIds == <<"A", "B", "C", "D">>

FileRegion(i, shape) ==
    Saved(FileIds[i], "Cluster", "cam1", shape.corners,
          shape.box.x, shape.box.y, shape.box.w, shape.box.h, "0")

Files ==
    UNION { { [i \in 1..n |-> FileRegion(i, shapes[i])] :
                shapes \in [1..n -> FileShapes] } :
            n \in 0..MaxFileRegions }

\* lines 111-114: the bounding box a loaded region keeps
StoredBox(display) ==
    [x |-> parseNum(display.x), y |-> parseNum(display.y),
     w |-> parseNum(display.w), h |-> parseNum(display.h)]

\* the region object after the forEach of loadConfig
loadedRegion(display) == loadDisplay(display) @@ StoredBox(display)

\* c.x = parseNum(c.x) on a corner that is null throws a TypeError
loadThrows(savedDisplays) ==
    \E i \in DOMAIN savedDisplays :
        /\ Len(savedDisplays[i].corners) = 4
        /\ \E k \in 1..4 : savedDisplays[i].corners[k] = Null

\* loadConfig(): the assignment to appState.displays is the last statement
\* of the try block, and the catch block only logs
LoadConfig ==
    /\ lastOp = "init"
    /\ displays' = IF loadThrows(file) THEN displays
                   ELSE [i \in DOMAIN file |-> loadedRegion(file[i])]
    /\ Event(IF loadThrows(file) THEN "load:caught" ELSE "load")
    /\ UNCHANGED <<activeDisplayId, histVars, modeVars, startVars, envVars,
                   gesture, probe, heapVars, ioVars, overlay, tabVars, mapping, moreVars>>

\* a saveConfig that writes the box the region carries
savedDisplayStoredBox(d) ==
    [id |-> d.id, name |-> d.name, camId |-> d.camId,
     corners |-> d.corners,
     x |-> d.x, y |-> d.y, w |-> d.w, h |-> d.h,
     rotation |-> Num(OrZero(d.rotation)),
     enablePerspective |-> d.enablePerspective]

\* the object saveConfig builds for a region
savedDisplay(d) ==
    LET corners == IF Len(d.corners) # 4
                   THEN Rect(d.x, d.y, d.x + d.w, d.y + d.h)
                   ELSE d.corners
        box == SavedBox([corners |-> corners])
    IN  [id |-> d.id, name |-> d.name, camId |-> d.camId,
         corners |-> corners,
         x |-> box.x, y |-> box.y, w |-> box.w, h |-> box.h,
         rotation |-> Num(OrZero(d.rotation)),
         enablePerspective |-> d.enablePerspective]

\* btn-save-config: the array posted to /api/config/save
SaveConfig ==
    /\ lastOp # "init"
    /\ time < MaxPersistEvents
    /\ payload' = [i \in DOMAIN displays |-> savedDisplay(displays[i])]
    /\ Event("save")
    /\ UNCHANGED <<progVars, gesture, probe, heapVars, file, overlay, tabVars, mapping, moreVars>>

\* native (160,160), inside the regions whose corners are those of A, and
\* the point 10 to the right and 20 below
PersistPoints == {Pt(360, 400), Pt(380, 440)}

Persist(A) ==
    /\ lastOp # "init"
    /\ time < MaxPersistEvents
    /\ A /\ TrackGesture /\ UNCHANGED <<probe, heapVars, ioVars, overlay, tabVars, mapping, moreVars>>

InitPersist ==
    /\ Constructed
    /\ displays = <<>>
    /\ heap = <<>> /\ live = 0
    /\ undoRefs = <<>> /\ redoRefs = <<>>
    /\ file \in Files
    /\ payload = <<>>
    /\ overlay = <<>> /\ tabs = <<>> /\ inbox = <<>> /\ mapping = <<>>
    /\ query = <<>> /\ dash = <<>> /\ monitor = <<>>

NextPersist ==
    \/ LoadConfig
    \/ /\ lastOp # "init"
       /\ \E id \in ListedCameras : SelectCameraClick(id)
       /\ UNCHANGED <<probe, heapVars, ioVars, overlay, tabVars, mapping, moreVars>>
    \/ lastOp # "init" /\ MediaLoaded /\ UNCHANGED <<probe, heapVars, ioVars, overlay, tabVars, mapping, moreVars>>
    \/ \E m \in PersistPoints : Persist(MouseDownDrag(m, FALSE))
    \/ \E m \in PersistPoints : Persist(MouseMoveGesture(m))
    \/ Persist(MouseUp)
    \/ SaveConfig

SpecPersist == InitPersist /\ [][NextPersist]_vars

\* ------------------------------------------------------------------ C25
\* the corners the repair gives a region of the file
Repaired(display) ==
    LET x == parseNum(display.x)
        y == parseNum(display.y)
        w == parseNum(display.w)
        h == parseNum(display.h)
    IN  IF Len(display.corners) = 4
        THEN [k \in 1..4 |-> Pt(parseNum(display.corners[k].x),
                                parseNum(display.corners[k].y))]
        ELSE <<Pt(x, y), Pt(x + w, y), Pt(x + w, y + h), Pt(x, y + h)>>

\* C25 (load repair): loading installs one region for every region of the
\* file, none dropped; a region that carries exactly 4 corners keeps them,
\* every coordinate coerced to a number and 0 where it cannot be read; any
\* other region gets the corners (x,y), (x+w,y), (x+w,y+h), (x,y+h) of its
\* bounding box, with 0 for an x, y, w or h that cannot be read.
C25_LoadRepair ==
    [][Ran({"load", "load:caught"}) =>
        /\ Len(displays') = Len(file)
        /\ \A i \in DOMAIN file :
              /\ displays'[i].id = file[i].id
              /\ displays'[i].corners = Repaired(file[i])]_vars

\* ------------------------------------------------------------------ C26
XsOf(d) == {d.corners[k].x : k \in DOMAIN d.corners}
YsOf(d) == {d.corners[k].y : k \in DOMAIN d.corners}
IsLeast(v, S) == v \in S /\ \A u \in S : v <= u
IsGreatest(v, S) == v \in S /\ \A u \in S : v >= u

\* C26 (bounding box on save): every region is saved with x the least and
\* x + w the greatest corner x, y the least and y + h the greatest corner y,
\* so that w >= 0, h >= 0 and every corner lies inside the box, whatever
\* x, y, w, h the region itself carries; the save leaves the live collection
\* as it was.
C26_SaveBox ==
    [][Ran({"save"}) =>
        /\ displays' = displays
        /\ Len(payload') = Len(displays)
        /\ \A i \in DOMAIN displays :
              LET d == displays[i]
                  p == payload'[i]
              IN  /\ p.id = d.id
                  /\ p.corners = d.corners
                  /\ IsLeast(p.x, XsOf(d))
                  /\ IsLeast(p.y, YsOf(d))
                  /\ IsGreatest(p.x + p.w, XsOf(d))
                  /\ IsGreatest(p.y + p.h, YsOf(d))
                  /\ p.w >= 0 /\ p.h >= 0
                  /\ \A k \in DOMAIN d.corners :
                        /\ p.x <= d.corners[k].x /\ d.corners[k].x <= p.x + p.w
                        /\ p.y <= d.corners[k].y /\ d.corners[k].y <= p.y + p.h]_vars

\* a region loaded with the box (80, 80, 160, 160) of its corners, dragged
\* by (10, 20) and saved with the box (90, 100, 160, 160)
C26_Witness ==
    /\ lastOp = "save"
    /\ \E i \in DOMAIN payload :
          /\ i \in DOMAIN displays
          /\ displays[i].x = 80 /\ displays[i].y = 80
          /\ payload[i].x = 90 /\ payload[i].y = 100
          /\ payload[i].w = 160 /\ payload[i].h = 160

\* ================================================================== overlay
MaxRenderEvents == 2
HandleInset == 7

\* what renderOverlays draws for a region: the polygon of its corners on
\* the rendered surface and, for the selected region, a handle on every
\* corner and the label (the rotation handle is drawn from the same
\* corners)
RegionOverlay(d, active, sc) ==
    LET pts == [k \in DOMAIN d.corners |->
                  Pt(OffsetX + d.corners[k].x * sc, OffsetY + d.corners[k].y * sc)]
    IN  [id |-> d.id, points |-> pts, active |-> active,
         handles |-> IF active
                     THEN [k \in DOMAIN pts |->
                             Pt(pts[k].x - HandleInset, pts[k].y - HandleInset)]
                     ELSE <<>>,
         label |-> IF active THEN d.name ELSE ""]

\* the children renderOverlays gives the layer
Overlay(ds, active, cam, shown, sc) ==
    LET vis == SelectSeq(ds, LAMBDA d : d.camId = cam)
    IN  IF ~shown THEN <<>>
        ELSE [j \in DOMAIN vis |-> RegionOverlay(vis[j], vis[j].id = active, sc)]

\* a renderOverlays that keeps the filtered array as the collection
renderOverlaysFiltering ==
    /\ overlay' = Overlay(displays, activeDisplayId, selectedCameraId,
                          mediaShown, scale)
    /\ displays' = SelectSeq(displays, LAMBDA d : d.camId = selectedCameraId)
    /\ lastOp' = "render"
    /\ UNCHANGED <<activeDisplayId, histVars, modeVars, startVars, envVars,
                   time, pointer, gesture, probe, heapVars, ioVars, tabVars, mapping, moreVars>>

\* renderOverlays(), called on its own (applyZoom, line 1002)
renderOverlays ==
    /\ overlay' = Overlay(displays, activeDisplayId, selectedCameraId,
                          mediaShown, scale)
    /\ lastOp' = "render"
    /\ UNCHANGED <<progVars, time, pointer, gesture, probe, heapVars, ioVars,
                   tabVars, mapping, moreVars>>

\* the handlers that end with a call of renderOverlays
RefreshOps ==
    {"mousedown:corner", "mousedown:rotate", "mousedown:side", "mousedown:drag",
     "mousemove:rotate", "mousemove:draw", "mousemove:drag", "mousemove:corner",
     "mousemove:side", "mouseup", "mouseup:discard", "mouseup:commit",
     "undo", "redo", "update", "delete", "close", "add", "select"}

\* the layer after a step of a handler: selectCamera hides the media and
\* draws again (applyZoom) once the image has loaded
TrackOverlay ==
    overlay' =
        IF \/ time' # time /\ lastOp' \in RefreshOps /\ mediaShown' = mediaShown
           \/ mediaShown' /\ ~mediaShown
        THEN Overlay(displays', activeDisplayId', selectedCameraId',
                     mediaShown', scale')
        ELSE overlay

Rend(A) ==
    /\ time < MaxRenderEvents
    /\ A /\ TrackGesture /\ TrackOverlay
    /\ UNCHANGED <<probe, heapVars, ioVars, tabVars, mapping, moreVars>>

NextRender ==
    \/ \E m \in MousePoints : Rend(MouseDownInert(m))
    \/ \E m \in MousePoints, altKey \in BOOLEAN : Rend(MouseDownCorner(m, altKey))
    \/ \E m \in MousePoints, altKey \in BOOLEAN : Rend(MouseDownRotate(m, altKey))
    \/ \E m \in MousePoints, altKey \in BOOLEAN : Rend(MouseDownSide(m, altKey))
    \/ \E m \in MousePoints, altKey \in BOOLEAN : Rend(MouseDownDrag(m, altKey))
    \/ \E m \in MousePoints, altKey \in BOOLEAN : Rend(MouseDownDraw(m, altKey))
    \/ \E m \in MousePoints : Rend(MouseMoveIdle(m))
    \/ \E m \in MousePoints : Rend(MouseMoveRotate(m))
    \/ \E m \in MousePoints : Rend(MouseMoveGesture(m))
    \/ Rend(MouseUp)
    \/ Rend(undo)
    \/ Rend(redo)
    \/ \E in \in PropInputs : Rend(UpdateDisplay(in))
    \/ Rend(DeleteDisplay)
    \/ Rend(ClosePanel)
    \/ Rend(AddDisplayRefused)
    \/ Rend(startAddDisplayMode)
    \/ \E id \in ListedIds : Rend(selectDisplayFromList(id))
    \/ /\ \E id \in ListedCameras : SelectCameraClick(id)
       /\ TrackOverlay /\ UNCHANGED <<probe, heapVars, ioVars, tabVars, mapping, moreVars>>
    \/ MediaLoaded /\ TrackOverlay /\ UNCHANGED <<probe, heapVars, ioVars, tabVars, mapping, moreVars>>
    \/ renderOverlays

SpecRender == Init /\ [][NextRender]_vars

\* ------------------------------------------------------------------ C27
\* C27 (rendering is read-only): a call of renderOverlays leaves the region
\* collection, the selection, the undo and redo stacks and the interaction
\* mode as they were, in whatever state it is called and however often.
C27_RenderReadOnly ==
    [][(lastOp' = "render" /\ time' = time) =>
          UNCHANGED <<displays, activeDisplayId, undoStack, redoStack,
                      modeVars>>]_vars

\* rendered during a drag, with a snapshot on the undo stack and a region of
\* another camera in the collection
C27_Witness ==
    /\ lastOp = "render"
    /\ overlay # <<>>
    /\ isDragging /\ activeDisplayId # NULL /\ undoStack # <<>>
    /\ \E i \in DOMAIN displays : displays[i].camId # selectedCameraId

\* ===================================================================== tabs
\* Every tab constructs a SingleTabEnforcer on the same BroadcastChannel.
\* A message posted on the channel is queued for every other tab whose
\* channel is open; a tab handles its messages in the order they were
\* posted.  A timer fires at any moment after it was set.
MaxTabs == 3
Tabs == 1..MaxTabs

Unopened ==
    [phase |-> "unopened", isActive |-> FALSE, checkTimeout |-> FALSE,
     warned |-> FALSE]

Message(type, t) == [type |-> type, tabId |-> t]

\* channel.postMessage(msg) in tab t
Post(box, t, msg) ==
    [u \in Tabs |-> IF u # t /\ tabs[u].phase = "open"
                    THEN Append(box[u], msg) ELSE box[u]]

\* new SingleTabEnforcer(): init() posts NEW_TAB and PING and sets the timer
OpenTab(t) ==
    /\ tabs[t].phase = "unopened"
    /\ tabs' = [tabs EXCEPT ![t] = [phase |-> "open", isActive |-> FALSE,
                                    checkTimeout |-> TRUE, warned |-> FALSE]]
    /\ inbox' = Post(Post(inbox, t, Message("NEW_TAB", t)), t,
                     Message("PING", t))

\* showWarningAndClose: the pending check is cleared, the warning is shown
showWarningAndClose(t) ==
    tabs' = [tabs EXCEPT ![t].checkTimeout = FALSE, ![t].warned = TRUE]

\* channel.onmessage
OnMessage(t) ==
    /\ tabs[t].phase = "open"
    /\ inbox[t] # <<>>
    /\ LET msg == Head(inbox[t])
           rest == [inbox EXCEPT ![t] = Tail(@)]
       IN  CASE msg.tabId = t ->
                    inbox' = rest /\ UNCHANGED tabs
             [] msg.tabId # t /\ msg.type = "NEW_TAB" ->
                    /\ inbox' = IF tabs[t].isActive
                                THEN Post(rest, t, Message("ACTIVE_TAB_EXISTS", t))
                                ELSE rest
                    /\ UNCHANGED tabs
             [] msg.tabId # t /\ msg.type = "PING" ->
                    /\ inbox' = IF tabs[t].isActive
                                THEN Post(rest, t, Message("PONG", t))
                                ELSE rest
                    /\ UNCHANGED tabs
             [] msg.tabId # t /\ msg.type \in {"ACTIVE_TAB_EXISTS", "PONG"} ->
                    inbox' = rest /\ showWarningAndClose(t)
             [] msg.tabId # t /\ msg.type = "TAB_CLOSED" ->
                    inbox' = rest /\ UNCHANGED tabs

\* the callback of the 200 ms timer
CheckTimeout(t) ==
    /\ tabs[t].phase = "open"
    /\ tabs[t].checkTimeout
    /\ tabs' = [tabs EXCEPT ![t].checkTimeout = FALSE, ![t].isActive = TRUE]
    /\ UNCHANGED inbox

\* beforeunload: TAB_CLOSED is posted, the timer cleared, the channel closed
CloseTab(t) ==
    /\ tabs[t].phase = "open"
    /\ tabs' = [tabs EXCEPT ![t].phase = "closed", ![t].checkTimeout = FALSE]
    /\ inbox' = [Post(inbox, t, Message("TAB_CLOSED", t)) EXCEPT ![t] = <<>>]

InitTabs ==
    /\ Constructed
    /\ displays = <<>>
    /\ heap = <<>> /\ live = 0
    /\ undoRefs = <<>> /\ redoRefs = <<>>
    /\ file = <<>> /\ payload = <<>>
    /\ overlay = <<>>
    /\ tabs = [t \in Tabs |-> Unopened]
    /\ inbox = [t \in Tabs |-> <<>>]
    /\ mapping = <<>>
    /\ query = <<>> /\ dash = <<>> /\ monitor = <<>>

Browser(A) ==
    A /\ UNCHANGED <<progVars, time, lastOp, pointer, gesture, probe, heapVars,
                     ioVars, overlay, mapping, moreVars>>

NextTabs ==
    \/ \E t \in Tabs : Browser(OpenTab(t))
    \/ \E t \in Tabs : Browser(OnMessage(t))
    \/ \E t \in Tabs : Browser(CheckTimeout(t))
    \/ \E t \in Tabs : Browser(CloseTab(t))

SpecTabs == InitTabs /\ [][NextTabs]_vars

\* ------------------------------------------------------------------ C28
ActiveTabs == {t \in Tabs : tabs[t].phase = "open" /\ tabs[t].isActive}

\* C28 (single tab): whatever the order in which tabs are opened, messages
\* handled and timers fired, at most one open tab has isActive = true.
C28_SingleActiveTab == Cardinality(ActiveTabs) <= 1

\* ================================================================== mapping
\* The numbers of the program are binary floating-point values: every
\* operation gives the representable value nearest to its exact result, a
\* tie going to the even mantissa.  A value is m * 2^e with m = 0 or
\* 2^(Precision-1) <= m < 2^Precision; a double has 53 bits of mantissa, the
\* values here have Precision.  Only values >= 0 occur.
Precision == 6
MaxCoord == 12

RECURSIVE Pow2(_)
Pow2(k) == IF k <= 0 THEN 1 ELSE 2 * Pow2(k - 1)

RECURSIVE BitLength(_)
BitLength(n) == IF n = 0 THEN 0 ELSE 1 + BitLength(n \div 2)

Float(m, e) == [m |-> m, e |-> e]
Zero == Float(0, 0)

\* the value nearest to n * 2^e
RoundFloat(n, e) ==
    IF n = 0 THEN Zero
    ELSE LET s == BitLength(n) - Precision
         IN  IF s <= 0 THEN Float(n * Pow2(-s), e + s)
             ELSE LET q == n \div Pow2(s)
                      r == n % Pow2(s)
                      half == Pow2(s - 1)
                      up == r > half \/ (r = half /\ q % 2 = 1)
                      m == IF up THEN q + 1 ELSE q
                  IN  IF m = Pow2(Precision)
                      THEN Float(Pow2(Precision - 1), e + s + 1)
                      ELSE Float(m, e + s)

FromInt(n) == RoundFloat(n, 0)

\* a * b
FMul(a, b) == RoundFloat(a.m * b.m, a.e + b.e)

\* a + b
FAdd(a, b) ==
    LET e0 == Min2(a.e, b.e)
    IN  RoundFloat(a.m * Pow2(a.e - e0) + b.m * Pow2(b.e - e0), e0)

\* a - b, for a >= b
FSub(a, b) ==
    LET e0 == Min2(a.e, b.e)
    IN  RoundFloat(a.m * Pow2(a.e - e0) - b.m * Pow2(b.e - e0), e0)

\* a / b, for b > 0: the quotient is cut after Precision + 2 bits and a
\* last bit says whether anything was cut off
FDiv(a, b) ==
    LET n == a.m * Pow2(Precision + 2)
        sticky == IF n % b.m = 0 THEN 0 ELSE 1
    IN  RoundFloat(2 * (n \div b.m) + sticky, a.e - b.e - Precision - 3)

\* offsetX + c.x * scale (lines 396-397, 659)
renderedCoord(offset, sc, c) == FAdd(offset, FMul(c, sc))

\* a conversion back that forgets the offset
nativeCoordNoOffset(offset, sc, m) == FDiv(m, sc)

\* (mouseX - offsetX) / scale (lines 466, 484-485)
nativeCoord(offset, sc, m) == FDiv(FSub(m, offset), sc)

\* the widths of the media, natural and rendered, and its offsets in the
\* container
NativeWidths == {3, 4, 5}
RenderedWidths == {2, 4, 6}
MediaOffsets == {Pt(0, 0), Pt(1, 10), Pt(40, 3)}
NativeCoords == 0..MaxCoord

InitMapping ==
    /\ Constructed
    /\ displays = <<>>
    /\ heap = <<>> /\ live = 0
    /\ undoRefs = <<>> /\ redoRefs = <<>>
    /\ file = <<>> /\ payload = <<>>
    /\ overlay = <<>> /\ tabs = <<>> /\ inbox = <<>>
    /\ query = <<>> /\ dash = <<>> /\ monitor = <<>>
    /\ \E nw \in NativeWidths, rw \in RenderedWidths, o \in MediaOffsets,
          x \in NativeCoords, y \in NativeCoords :
          mapping = [step |-> "native",
                     \* scale = renderedW / nativeW (line 386)
                     scale |-> FDiv(FromInt(rw), FromInt(nw)),
                     offset |-> Pt(FromInt(o.x), FromInt(o.y)),
                     p |-> Pt(FromInt(x), FromInt(y)),
                     q |-> Pt(Zero, Zero), r |-> Pt(Zero, Zero)]

\* the point is drawn: native to rendered
ToRendered ==
    /\ mapping.step = "native"
    /\ mapping' = [mapping EXCEPT
            !.step = "rendered",
            !.q = Pt(renderedCoord(mapping.offset.x, mapping.scale, mapping.p.x),
                     renderedCoord(mapping.offset.y, mapping.scale, mapping.p.y))]
    /\ UNCHANGED <<progVars, time, lastOp, pointer, gesture, probe, heapVars,
                   ioVars, overlay, tabVars, moreVars>>

\* the pointer is on the drawn point: rendered to native
ToNative ==
    /\ mapping.step = "rendered"
    /\ mapping' = [mapping EXCEPT
            !.step = "back",
            !.r = Pt(nativeCoord(mapping.offset.x, mapping.scale, mapping.q.x),
                     nativeCoord(mapping.offset.y, mapping.scale, mapping.q.y))]
    /\ UNCHANGED <<progVars, time, lastOp, pointer, gesture, probe, heapVars,
                   ioVars, overlay, tabVars, moreVars>>

NextMapping == ToRendered \/ ToNative

SpecMapping == InitMapping /\ [][NextMapping]_vars

LeqScaled(a, ea, b, eb) ==
    IF ea >= eb THEN a * Pow2(ea - eb) <= b ELSE a <= b * Pow2(eb - ea)

\* |r - c| * sc is at most tol units in the last place of q
Within(tol, c, r, sc, q) ==
    LET e0 == Min2(r.e, c.e)
        d == Abs(r.m * Pow2(r.e - e0) - c.m * Pow2(c.e - e0))
    IN  LeqScaled(d * sc.m, e0 + sc.e, tol, q.e)

MaxRotateEvents == 6

\* empty canvas at native (0,0) and (80,160), the rotation handle of the
\* added region at (250,120), and (320,190), a quarter turn from the handle
\* around the centre (250,190)
RotatePoints == {Pt(40, 80), Pt(200, 400), Pt(540, 320), Pt(680, 460)}

Rot(A) ==
    /\ time < MaxRotateEvents
    /\ A /\ TrackGesture
    /\ UNCHANGED <<probe, heapVars, ioVars, overlay, tabVars, mapping, moreVars>>

NextRotate ==
    \/ Rot(startAddDisplayMode)
    \/ \E m \in RotatePoints : Rot(MouseDownDraw(m, FALSE))
    \/ \E m \in RotatePoints : Rot(MouseDownRotate(m, FALSE))
    \/ \E m \in RotatePoints : Rot(MouseMoveRotate(m))
    \/ \E m \in RotatePoints : Rot(MouseMoveGesture(m))
    \/ Rot(MouseUp)
    \/ /\ \E id \in ListedCameras : SelectCameraClick(id)
       /\ UNCHANGED <<probe, heapVars, ioVars, overlay, tabVars, mapping, moreVars>>
    \/ MediaLoaded /\ UNCHANGED <<probe, heapVars, ioVars, overlay, tabVars, mapping, moreVars>>

SpecRotate == InitGesture /\ [][NextRotate]_vars

\* ------------------------------------------------------------------ C30
\* 16 times the square of the distance of two points
Dist2(a, b) == 16 * ((a.x - b.x) * (a.x - b.x) + (a.y - b.y) * (a.y - b.y))

\* the quarter turn that takes v to w about the centre c4 / 4
Turned(v, c4, angleDeg) ==
    LET k == ((angleDeg % 360) + 360) % 360
        px == 4 * v.x - c4.x
        py == 4 * v.y - c4.y
    IN  CASE k = 0 -> Pt(4 * v.x, 4 * v.y)
          [] k = 90 -> Pt(c4.x - py, c4.y + px)
          [] k = 180 -> Pt(c4.x - px, c4.y - py)
          [] OTHER -> Pt(c4.x + py, c4.y - px)

\* C30 (rigid rotation): after any move of a rotate gesture the corners of
\* the region are its gesture-start corners turned about its gesture-start
\* centroid by delta, the angle between the pointer at the press and the
\* pointer now as seen from that centroid; the centroid and all pairwise
\* corner distances are those of the gesture start.
C30_RigidRotation ==
    Moved("mousedown:rotate", "mousemove:rotate") =>
        \A i \in Pressed :
            LET start == gesture.start[i].corners
                c4 == getPolyCenter(start)
                delta == AngleDelta(rotateStartAngle, CurrentAngle(pointer))
            IN  /\ i \in DOMAIN displays
                /\ \A k \in 1..4 :
                      Pt(4 * displays[i].corners[k].x, 4 * displays[i].corners[k].y)
                          = Turned(start[k], c4, delta)
                /\ getPolyCenter(displays[i].corners) = c4
                /\ \A k, l \in 1..4 :
                      Dist2(displays[i].corners[k], displays[i].corners[l])
                          = Dist2(start[k], start[l])

\* ============================================================ point in polygon
\* isPointInPoly is given a point and four corners; the hit test calls it
\* with the native pointer position and the corners of a region, and calls
\* it again with the same arguments on the next press at the same place.
PolyCoords == {0, 5, 10}
PointCoords == {-5, 0, 2, 5, 10, 15}

PolyPoints == {Pt(a, b) : a \in PolyCoords, b \in PolyCoords}

InitPoly ==
    /\ Constructed
    /\ displays = <<>>
    /\ heap = <<>> /\ live = 0
    /\ undoRefs = <<>> /\ redoRefs = <<>>
    /\ file = <<>> /\ payload = <<>>
    /\ overlay = <<>> /\ tabs = <<>> /\ inbox = <<>> /\ mapping = <<>>
    /\ dash = <<>> /\ monitor = <<>>
    /\ \E c1 \in PolyPoints, c2 \in PolyPoints, c3 \in PolyPoints, c4 \in PolyPoints,
          a \in PointCoords, b \in PointCoords :
          query = [step |-> "given", pt |-> Pt(a, b), poly |-> <<c1, c2, c3, c4>>,
                   first |-> FALSE, second |-> FALSE]

\* InteriorHit of a press
AskPoly ==
    /\ query.step = "given"
    /\ query' = [query EXCEPT !.step = "asked",
                              !.first = isPointInPoly(query.pt, query.poly)]
    /\ UNCHANGED <<progVars, time, lastOp, pointer, gesture, probe, heapVars,
                   ioVars, overlay, tabVars, mapping, dash, monitor>>

\* InteriorHit of the next press at the same place
AskPolyAgain ==
    /\ query.step = "asked"
    /\ query' = [query EXCEPT !.step = "again",
                              !.second = isPointInPoly(query.pt, query.poly)]
    /\ UNCHANGED <<progVars, time, lastOp, pointer, gesture, probe, heapVars,
                   ioVars, overlay, tabVars, mapping, dash, monitor>>

NextPoly == AskPoly \/ AskPolyAgain

SpecPoly == InitPoly /\ [][NextPoly]_vars

\* ------------------------------------------------------------------- C31
Next4(i) == (i % 4) + 1

\* pt lies on the segment from a to b, ends included
OnSegment(pt, a, b) ==
    /\ (b.x - a.x) * (pt.y - a.y) = (b.y - a.y) * (pt.x - a.x)
    /\ Min2(a.x, b.x) <= pt.x /\ pt.x <= Max2(a.x, b.x)
    /\ Min2(a.y, b.y) <= pt.y /\ pt.y <= Max2(a.y, b.y)

OnBoundary(pt, poly) ==
    \E i \in 1..4 : OnSegment(pt, poly[i], poly[Next4(i)])

\* the edge from a to b passes above pt: it meets the vertical line through
\* pt at a greater y, an end on that line counting for the edge on its right
PassesAbove(pt, a, b) ==
    /\ \/ (a.x <= pt.x /\ pt.x < b.x)
       \/ (b.x <= pt.x /\ pt.x < a.x)
    /\ IF b.x > a.x
       THEN (pt.y - a.y) * (b.x - a.x) < (b.y - a.y) * (pt.x - a.x)
       ELSE (pt.y - a.y) * (b.x - a.x) > (b.y - a.y) * (pt.x - a.x)

\* the even-odd rule, by the ray from pt upwards
EvenOddInside(pt, poly) ==
    Cardinality({i \in 1..4 : PassesAbove(pt, poly[i], poly[Next4(i)])}) % 2 = 1

\* twice the signed area of the triangle a, b, pt
Side(pt, a, b) == (b.x - a.x) * (pt.y - a.y) - (b.y - a.y) * (pt.x - a.x)

\* the corners turn the same way at every corner: a convex quadrilateral
Convex(poly) ==
    \/ \A i \in 1..4 : Side(poly[Next4(Next4(i))], poly[i], poly[Next4(i)]) > 0
    \/ \A i \in 1..4 : Side(poly[Next4(Next4(i))], poly[i], poly[Next4(i)]) < 0

\* pt is on the inner side of every edge
WithinConvex(pt, poly) ==
    \/ \A i \in 1..4 : Side(pt, poly[i], poly[Next4(i)]) > 0
    \/ \A i \in 1..4 : Side(pt, poly[i], poly[Next4(i)]) < 0

Square10 == Rect(0, 0, 10, 10)

\* C31 (point in polygon): for a point off the boundary of the
\* quadrilateral, isPointInPoly answers what the even-odd rule says (for a
\* convex quadrilateral: true exactly when the point is on the inner side of
\* all four edges); in the square (0,0),(10,0),(10,10),(0,10) the point (5,5)
\* is inside and (15,15) is outside; for any point, on the boundary or not,
\* a second call with the same arguments gives the same answer.
C31_PointInPoly ==
    /\ query.step \in {"asked", "again"} =>
          /\ ~OnBoundary(query.pt, query.poly) =>
                /\ query.first = EvenOddInside(query.pt, query.poly)
                /\ Convex(query.poly) =>
                      query.first = WithinConvex(query.pt, query.poly)
          /\ (query.poly = Square10 /\ query.pt = Pt(5, 5)) => query.first
          /\ (query.poly = Square10 /\ query.pt = Pt(15, 15)) => ~query.first
    /\ query.step = "again" => query.second = query.first

\* (5,5) was asked twice for a quadrilateral that is not a rectangle and
\* holds it strictly inside
C31_Witness ==
    /\ query.step = "again"
    /\ query.poly = <<Pt(0, 0), Pt(10, 5), Pt(10, 10), Pt(0, 10)>>
    /\ query.pt = Pt(5, 5)
    /\ query.first
    /\ ~OnBoundary(query.pt, query.poly)

\* ===================================================== dashboard snapshot
\* monitor.js: the tiles of the dashboard, toggleMaximize and captureSnapshot.
\* dash.maximized is the set of tiles whose classList holds tile-maximized,
\* dash.pc the await captureSnapshot is suspended at, dash.atCall the value
\* of maximizedDisplayId when captureSnapshot was called (history).
MaxCaptures == 2
Tiles == {"A", "B", "C"}

toggleMaximize(d, displayId) ==
    IF displayId \in d.maximized
    THEN [d EXCEPT !.maximized = @ \ {displayId}, !.maximizedDisplayId = NULL]
    ELSE [d EXCEPT !.maximized = @ \cup {displayId}, !.maximizedDisplayId = displayId]

InitSnapshot ==
    /\ Constructed
    /\ displays = <<>>
    /\ heap = <<>> /\ live = 0
    /\ undoRefs = <<>> /\ redoRefs = <<>>
    /\ file = <<>> /\ payload = <<>>
    /\ overlay = <<>> /\ tabs = <<>> /\ inbox = <<>> /\ mapping = <<>>
    /\ query = <<>> /\ monitor = <<>>
    /\ dash = [maximized |-> {}, maximizedDisplayId |-> NULL, pc |-> "idle",
               wasMaximized |-> NULL, atCall |-> NULL, captures |-> 0]

Dashboard(A) ==
    A /\ UNCHANGED <<progVars, time, lastOp, pointer, gesture, probe, heapVars,
                     ioVars, overlay, tabVars, mapping, query, monitor>>

\* a click on the maximize button of a tile: a maximized tile covers the
\* others, so only its own button is in reach
ClickMaximize(id) ==
    /\ dash.maximized = {} \/ id \in dash.maximized
    /\ dash' = toggleMaximize(dash, id)

\* btn-snapshot, enabled: the code up to the first await (lines 305-385)
CaptureStart ==
    /\ dash.pc \in {"idle", "failed"}
    /\ dash.captures < MaxCaptures
    /\ LET was == dash.maximizedDisplayId
           d == [dash EXCEPT !.pc = "frozen", !.wasMaximized = was,
                             !.atCall = was, !.captures = @ + 1]
       IN  dash' = IF was # NULL THEN toggleMaximize(d, was) ELSE d

\* the first timer of 200 ms: the overlay is inserted (lines 388-416)
CaptureOverlay ==
    /\ dash.pc = "frozen"
    /\ dash' = [dash EXCEPT !.pc = "overlay"]

\* the second timer of 200 ms: html2canvas is called (lines 421-427)
CaptureRender ==
    /\ dash.pc = "overlay"
    /\ dash' = [dash EXCEPT !.pc = "rendering"]

\* html2canvas resolved: lines 429-463, the button stays disabled
CaptureRendered ==
    /\ dash.pc = "rendering"
    /\ LET d == [dash EXCEPT !.pc = "done"]
       IN  dash' = IF dash.wasMaximized # NULL
                   THEN toggleMaximize(d, dash.wasMaximized) ELSE d

\* html2canvas rejected: the catch block (lines 496-531)
CaptureFailed ==
    /\ dash.pc = "rendering"
    /\ LET d == [dash EXCEPT !.pc = "failed"]
       IN  dash' = IF dash.maximizedDisplayId # NULL
                   THEN toggleMaximize(d, dash.maximizedDisplayId) ELSE d

\* two seconds after the download: the button is enabled again
ButtonReset ==
    /\ dash.pc = "done"
    /\ dash' = [dash EXCEPT !.pc = "idle"]

NextSnapshot ==
    \/ \E id \in Tiles : Dashboard(ClickMaximize(id))
    \/ Dashboard(CaptureStart)
    \/ Dashboard(CaptureOverlay)
    \/ Dashboard(CaptureRender)
    \/ Dashboard(CaptureRendered)
    \/ Dashboard(CaptureFailed)
    \/ Dashboard(ButtonReset)

SpecSnapshot == InitSnapshot /\ [][NextSnapshot]_vars

\* ------------------------------------------------------------------- C32
\* C32 (maximized state restored): when a capture finishes, by the success
\* path or by the catch block, and a tile was maximized when captureSnapshot
\* was called, that tile is maximized and maximizedDisplayId is its id.
C32_MaximizedRestored ==
    [][(dash.pc = "rendering" /\ dash'.pc \in {"done", "failed"}
            /\ dash.atCall # NULL) =>
            /\ dash.atCall \in dash'.maximized
            /\ dash'.maximizedDisplayId = dash.atCall]_vars

\* ------------------------------------------------------------------- C33
\* C33 (history size): in every reachable state the undo stack and the redo
\* stack together hold at most 50 snapshots, so a redo, which pushes on the
\* undo stack without looking at the limit, never leaves more than 50 there.
C33_HistorySize ==
    /\ Len(undoStack) + Len(redoStack) <= HistoryLimit
    /\ Len(undoStack) <= HistoryLimit

\* a redo has just filled the undo stack to the limit
C33_Witness ==
    /\ lastOp = "redo"
    /\ Len(undoStack) = HistoryLimit
    /\ redoStack = <<>>

\* ================================================= shortcuts during a gesture
\* Regions A and B are loaded.  A region is pressed on a corner, an edge, its
\* rotation handle or its interior, moved and released; Ctrl+Z, Ctrl+Y and
\* the toolbar buttons call undo() and redo() at any time, also between the
\* press and the release.
\* probe.phase is "pressed" from a press that found no mode active until the
\* release, "released" after that release; probe.base is the collection at
\* the press and probe.n the undos and redos invoked since.
MaxShortcutEvents == 5

ShortcutPoints == {Pt(200, 400), Pt(360, 280), Pt(520, 560)}

InitShortcut == Init /\ displays = <<RegionA, RegionB>>

TrackShortcut ==
    probe' =
        IF lastOp' \in PressOps
        THEN (IF AnyMode THEN [probe EXCEPT !.phase = "free"]
              ELSE [probe EXCEPT !.phase = "pressed", !.base = displays, !.n = 0])
        ELSE IF probe.phase = "pressed" /\ lastOp' \in MoveOps THEN probe
        ELSE IF probe.phase = "pressed" /\ lastOp' \in HistoryOps
             THEN [probe EXCEPT !.n = @ + 1]
        ELSE IF probe.phase = "pressed" /\ lastOp' \in UpOps
             THEN [probe EXCEPT !.phase = "released"]
        ELSE [probe EXCEPT !.phase = "free"]

Short(A) ==
    /\ time < MaxShortcutEvents
    /\ A /\ TrackGesture /\ TrackShortcut
    /\ UNCHANGED <<heapVars, ioVars, overlay, tabVars, mapping, moreVars>>

NextShortcut ==
    \/ \E m \in ShortcutPoints, altKey \in BOOLEAN : Short(MouseDownCorner(m, altKey))
    \/ \E m \in ShortcutPoints, altKey \in BOOLEAN : Short(MouseDownRotate(m, altKey))
    \/ \E m \in ShortcutPoints, altKey \in BOOLEAN : Short(MouseDownSide(m, altKey))
    \/ \E m \in ShortcutPoints, altKey \in BOOLEAN : Short(MouseDownDrag(m, altKey))
    \/ \E m \in ShortcutPoints : Short(MouseMoveIdle(m))
    \/ \E m \in ShortcutPoints : Short(MouseMoveRotate(m))
    \/ \E m \in ShortcutPoints : Short(MouseMoveGesture(m))
    \/ Short(MouseUp)
    \/ Short(undo)
    \/ Short(redo)
    \/ (\E id \in ListedCameras : SelectCameraClick(id)) /\ UNCHANGED <<probe, heapVars, ioVars, overlay, tabVars, mapping, moreVars>>
    \/ MediaLoaded /\ UNCHANGED <<probe, heapVars, ioVars, overlay, tabVars, mapping, moreVars>>

SpecShortcut == InitShortcut /\ [][NextShortcut]_vars

\* ------------------------------------------------------------------- C34
\* C34 (shortcuts during a gesture): an undo that runs right after the
\* release of a gesture on an existing region makes the collection equal to
\* its content at the press of that gesture, whether or not undo or redo ran
\* between the press and the release.
C34_UndoAfterGesture ==
    [][(probe.phase = "released" /\ Ran({"undo", "undo:empty"})) =>
            displays' = probe.base]_vars

\* ------------------------------------------------------------------- C35
\* C35 (selection validity): in every reachable state activeDisplayId is
\* null or the id of a region of the collection.
C35_SelectionValid ==
    activeDisplayId = NULL \/ \E i \in DOMAIN displays : displays[i].id = activeDisplayId

\* ------------------------------------------------------------------- C38
\* C38 (Add Region refused): Add Region with no camera selected leaves the
\* collection, the selection, the undo stack and the redo stack as they were.
C38_AddRefusedNoEffect ==
    [][Ran({"add:refused"}) =>
            UNCHANGED <<displays, activeDisplayId, undoStack, redoStack>>]_vars

\* ============================================ a gesture after a long session
\* The editing session of SpecHistory (a region selected in the list, its
\* rotation field edited over and over), followed by gestures on the canvas
\* that begin with an empty, a nearly full or a full history.  probe.n counts
\* the events of the gestures.
MaxTailEvents == 3

TailPoints == {Pt(40, 80), Pt(200, 400), Pt(520, 560)}

\* undo depths at which the gestures begin
TailDepths == {0, 1, HistoryLimit - 1, HistoryLimit}

Late(A) ==
    /\ probe.n < MaxTailEvents
    /\ probe.n > 0 \/ Len(undoStack) \in TailDepths
    /\ A /\ TrackGesture
    /\ probe' = [probe EXCEPT !.n = @ + 1]
    /\ UNCHANGED <<heapVars, ioVars, overlay, tabVars, mapping, moreVars>>

NextLong ==
    \/ /\ activeDisplayId = NULL /\ probe.n = 0
       /\ \E id \in ListedIds : Edit(selectDisplayFromList(id))
    \/ \E i \in DOMAIN displays :
          /\ displays[i].id = activeDisplayId /\ probe.n = 0
          /\ Edit(UpdateDisplay(NextValue(displays[i])))
    \/ MediaLoaded /\ UNCHANGED <<probe, heapVars, ioVars, overlay, tabVars, mapping, moreVars>>
    \/ \E m \in TailPoints : Late(MouseDownCorner(m, TRUE))
    \/ \E m \in TailPoints : Late(MouseDownSide(m, FALSE))
    \/ \E m \in TailPoints : Late(MouseDownDrag(m, FALSE))
    \/ \E m \in TailPoints : Late(MouseDownDraw(m, FALSE))
    \/ \E m \in TailPoints : Late(MouseMoveGesture(m))
    \/ Late(MouseUp)

SpecLong == InitHistory /\ [][NextLong]_vars

\* ------------------------------------------------------------------- C36
\* C36 (one snapshot per gesture): a press that enters a mode pushes exactly
\* one snapshot (the depth grows by one, or stays at 50 with the oldest entry
\* dropped), a move or a release pushes none, and so after the release of a
\* gesture (with or without moves, a discarded draw included) the undo depth
\* is the depth at the press plus one, or 50 when it was 50.
C36_OneSnapshotPerGesture ==
    /\ [][Ran(PressOps) =>
            /\ Len(undoStack') = Min2(Len(undoStack) + 1, HistoryLimit)
            /\ Last(undoStack') = Clone(displays)
            /\ \A k \in 1..(Len(undoStack') - 1) :
                  undoStack'[k] = undoStack[k + Len(undoStack) + 1 - Len(undoStack')]]_vars
    /\ [][Ran(MoveOps \cup UpOps) => UNCHANGED undoStack]_vars
    /\ [](lastOp \in UpOps /\ gesture.clean =>
            Len(undoStack) = Min2(gesture.depth + 1, HistoryLimit))

\* a draw gesture that began with a full history was discarded
C36_Witness ==
    /\ lastOp = "mouseup:discard"
    /\ gesture.clean /\ gesture.kind = "mousedown:draw"
    /\ gesture.depth = HistoryLimit
    /\ Len(undoStack) = HistoryLimit

\* ------------------------------------------------------------------- C37
\* the collection right after the press of the gesture: for a draw gesture
\* the provisional region has been appended, its corners at the press point
AtPress ==
    IF gesture.kind = "mousedown:draw"
    THEN Append(gesture.start,
                [displays[Len(gesture.start) + 1] EXCEPT !.corners = originalCorners])
    ELSE gesture.start

\* the collection a single move to m makes of the collection ds
MoveFrom(ds, m) ==
    LET i == FindIndex(ds, activeDisplayId)
        ndx == (m.x - dragStartX) \div scale
        ndy == (m.y - dragStartY) \div scale
        delta == AngleDelta(rotateStartAngle, CurrentAngle(m))
        cs == ds[i].corners
    IN  IF isRotating
        THEN [ds EXCEPT ![i].corners = rotatePoints(originalCorners, displayCenter, delta),
                        ![i].rotation = Num(NormRotation(rotateStartValue, delta))]
        ELSE [ds EXCEPT ![i].corners =
                IF isDrawing THEN DrawnCorners(cs, ndx, ndy)
                ELSE IF isDragging THEN DraggedCorners(ndx, ndy)
                ELSE IF isResizing THEN ResizedCorners(cs, ndx, ndy)
                ELSE SideCorners(cs, ndx, ndy)]

GestureMoves == MoveOps \ {"mousemove:idle"}

\* C37 (absolute moves): after every move of a gesture, in every mode, the
\* collection is what one move to the same pointer position makes of the
\* collection as it was right after the press, so the corners depend on the
\* gesture-start corners, the pointer at the press and the current pointer
\* only, whatever moves came before; a move to the position of the move
\* before it changes nothing.
C37_AbsoluteMoves ==
    /\ [][(Ran(GestureMoves) /\ gesture.clean) =>
            displays' = MoveFrom(AtPress, pointer')]_vars
    /\ [][(Ran(GestureMoves) /\ gesture.clean /\ lastOp \in GestureMoves
              /\ pointer' = pointer) => displays' = displays]_vars

\* the second move of a gesture, away from the position of the first, that
\* was pressed as the first event of the session
C37_Witness ==
    /\ time = 3
    /\ lastOp \in GestureMoves /\ gesture.clean
    /\ gesture.depth = 0 /\ gesture.start \in LoadedConfigs
    /\ Len(undoStack) = 1 /\ redoStack = <<>>
    /\ displays # gesture.start

\* ------------------------------------------------------------------- C39
\* C39 (gestures are local): during and after a drag, corner, edge or rotate
\* gesture on a region, every other region is as it was at the press, the
\* ids of the collection and their order are those of the press, and the
\* id, name, camera and perspective flag of the pressed region are unchanged.
C39_GestureLocal ==
    (/\ gesture.clean
     /\ gesture.kind \in {"mousedown:drag", "mousedown:corner",
                          "mousedown:side", "mousedown:rotate"}
     /\ lastOp \in MoveOps \cup UpOps) =>
        \A i \in Pressed :
            /\ Len(displays) = Len(gesture.start)
            /\ \A j \in DOMAIN displays :
                  /\ displays[j].id = gesture.start[j].id
                  /\ j # i => displays[j] = gesture.start[j]
            /\ displays[i].name = gesture.start[i].name
            /\ displays[i].camId = gesture.start[i].camId
            /\ displays[i].enablePerspective = gesture.start[i].enablePerspective

\* ============================================================ monitor mode
\* monitor.js: initMonitorMode, loadAndStartMonitoring, startPollingLoop and
\* stopMonitoring, with the fetches and timers of the browser.  The source
\* holds two builds of startPollingLoop: "timeout" re-arms setTimeout after
\* every snapshot fetch, "interval" polls the status from setInterval.
\* monitor.loads is the number of /api/config/load fetches not yet resolved,
\* monitor.polls the polls suspended at their fetch, monitor.timers the ids
\* of the timeouts and intervals that are armed, monitor.entries the calls
\* of initMonitorMode so far, monitor.view the view that is shown.
MaxEntries == 2
MaxPolls == 2

Builds == {"timeout", "interval"}

\* the id the browser gives the next timer: one that no armed timer has and
\* the program no longer holds
FreshTimer(mon) ==
    CHOOSE id \in 1..(MaxEntries + MaxPolls + 2) :
        /\ id \notin mon.timers \cup {mon.pollingIntervalId}
        /\ \A other \in 1..(id - 1) : other \in mon.timers \cup {mon.pollingIntervalId}

stopMonitoring(mon) ==
    [mon EXCEPT !.isMonitoring = FALSE,
                !.timers = IF mon.pollingIntervalId # 0
                           THEN @ \ {mon.pollingIntervalId} ELSE @,
                !.pollingIntervalId = 0]

startPollingLoop(mon) ==
    IF mon.build = "timeout"
    THEN [mon EXCEPT !.isMonitoring = TRUE, !.polls = @ + 1]
    ELSE [mon EXCEPT !.isMonitoring = TRUE, !.polls = @ + 1,
                     !.pollingIntervalId = FreshTimer(mon),
                     !.timers = @ \cup {FreshTimer(mon)}]

InitMonitor ==
    /\ Constructed
    /\ displays = <<>>
    /\ heap = <<>> /\ live = 0
    /\ undoRefs = <<>> /\ redoRefs = <<>>
    /\ file = <<>> /\ payload = <<>>
    /\ overlay = <<>> /\ tabs = <<>> /\ inbox = <<>> /\ mapping = <<>>
    /\ query = <<>> /\ dash = <<>>
    /\ \E b \in Builds :
          monitor = [build |-> b, isMonitoring |-> FALSE, pollingIntervalId |-> 0,
                     timers |-> {}, loads |-> 0, polls |-> 0, entries |-> 0,
                     view |-> "landing-view", last |-> "init"]

Page(A) ==
    A /\ UNCHANGED <<progVars, time, lastOp, pointer, gesture, probe, heapVars,
                     ioVars, overlay, tabVars, mapping, query, dash>>

\* btn-start-monitor of the landing view: navigateTo('monitor-view') and
\* initMonitorMode up to the await of the fetch
EnterMonitor ==
    /\ monitor.view = "landing-view"
    /\ monitor.entries < MaxEntries
    /\ monitor' = [stopMonitoring(monitor) EXCEPT
                       !.loads = @ + 1, !.entries = @ + 1,
                       !.view = "monitor-view", !.last = "enter"]

\* btn-exit-monitor: stopMonitoring, navigateTo('landing-view')
ExitMonitor ==
    /\ monitor.view = "monitor-view"
    /\ monitor' = [stopMonitoring(monitor) EXCEPT
                       !.view = "landing-view", !.last = "stop"]

\* /api/config/load answered with regions: renderGrid, startPollingLoop
ConfigLoaded ==
    /\ monitor.loads > 0
    /\ monitor.polls < MaxPolls
    /\ monitor' = [startPollingLoop(monitor) EXCEPT !.loads = @ - 1, !.last = "loaded"]

\* the fetch failed or answered with no regions
ConfigUnusable ==
    /\ monitor.loads > 0
    /\ monitor' = [monitor EXCEPT !.loads = @ - 1, !.last = "unusable"]

\* the fetch of a poll resolved or failed; the timeout build re-arms
PollSettled ==
    /\ monitor.polls > 0
    /\ monitor' =
          IF monitor.build = "timeout" /\ monitor.isMonitoring
          THEN [monitor EXCEPT !.polls = @ - 1, !.last = "settled",
                               !.pollingIntervalId = FreshTimer(monitor),
                               !.timers = @ \cup {FreshTimer(monitor)}]
          ELSE [monitor EXCEPT !.polls = @ - 1, !.last = "settled"]

\* an armed timer fires: a timeout is consumed, an interval stays armed
TimerFires(id) ==
    /\ id \in monitor.timers
    /\ ~monitor.isMonitoring \/ monitor.polls < MaxPolls
    /\ monitor' =
          [monitor EXCEPT
              !.timers = IF monitor.build = "timeout" THEN @ \ {id} ELSE @,
              !.polls = IF monitor.isMonitoring THEN @ + 1 ELSE @,
              !.last = "fired"]

NextMonitor ==
    \/ Page(EnterMonitor)
    \/ Page(ExitMonitor)
    \/ Page(ConfigLoaded)
    \/ Page(ConfigUnusable)
    \/ Page(PollSettled)
    \/ \E id \in 1..(MaxEntries + MaxPolls + 2) : Page(TimerFires(id))

SpecMonitor == InitMonitor /\ [][NextMonitor]_vars

\* ------------------------------------------------------------------- C40
\* the polling chains and intervals that are alive: the armed timers and,
\* in the timeout build, the polls that will re-arm when their fetch settles
AlivePolling ==
    Cardinality(monitor.timers)
        + (IF monitor.build = "timeout" /\ monitor.isMonitoring THEN monitor.polls ELSE 0)

====
